---- MODULE Spec2Model ----
(***************************************************************************)
(* State-machine model of the lizzen-web backend (src/backend/index.js):   *)
(* the async job table (asyncJobs), the torrent handle registry            *)
(* (activeTorrents), the swarm engine's sessions (torrentClient) and the   *)
(* handlers that touch them.                                               *)
(*                                                                         *)
(* Node runs one handler at a time: the code between two awaits is one     *)
(* atomic action here.  The continuation of an await on a creation promise *)
(* runs in the microtask queue right after the event that settles it, so   *)
(* it is part of the action of that event.                                 *)
(*                                                                         *)
(* Time is counted in milliseconds.  A timer holds the time it has left;   *)
(* Tick lets time pass, by at most TickMs and never past a due timer.      *)
(***************************************************************************)
EXTENDS Integers, Naturals, Sequences, FiniteSets, TLC

\* ------------------------------------------------------------------ bounds
MaxJobs == 2        \* job identifiers generateJobId hands out in one run
MaxHandles == 2     \* sessions torrentClient.add creates in one run
NumMagnets == 1     \* distinct resolved magnet identifiers
MaxAudio == 2       \* audio files a handle can hold
TickMs == 150000    \* the longest stretch of time one Tick lets pass
MaxFiles == 3       \* files of the torrent a selection runs on
MaxHintParts == 2   \* parts a fileName hint is put together from
MaxRange == 3       \* the largest position a Range header names
MaxCandidates == 2  \* torrents the indexer queries collect for one ranking
MaxResolves == 2    \* calls of resolveMagnetUrl chained on one reference
MaxDetails == 2     \* requests of artist details
MaxAlbums == 2      \* albums of an artist
NumArtists == 2     \* artists
MaxCallers == 3     \* calls of rateLimitedMusicBrainzCall
LimiterStepMs == 250      \* the time between two observations of Date.now()
LimiterHorizonMs == 3000  \* how long the rate limiter is observed
MaxPolls == 20      \* how many times the interval of a polling loop fires
MaxQueries == 7     \* search queries built for one track
MaxProbes == 2      \* requests of test-magnet

\* ------------------------------------------------------- program constants
JOB_RETENTION_MS == 300000   \* setTimeout(..., 300000) in job-status
MinInterval == 1000          \* MUSICBRAINZ_CONFIG.rateLimit
QueryLimit == 6              \* searchQueries.slice(0, 6)

\* expectedFileCount as requests give it: absent (0, falsy) or 1
ExpectedCounts == {0, 1}

JobIds == 1..MaxJobs
HandleIds == 1..MaxHandles
Magnets == 1..NumMagnets

Terminal == {"completed", "failed"}

\* error.message values the background tasks can record
ErrNoPeers == "No active peers found for this torrent"
ErrNoAudio == "No audio files found in torrent"
ErrCount == "File count mismatch"
ErrSwarm == "swarm error"
ErrUnexpected == "unexpected failure"

\* error.message of the creation timeouts of the request endpoints
ErrNoPeersSync ==
  "No active peers found for this torrent. The torrent may be dead"
ErrTracksTimeout == "Timeout getting track listing - torrent may be dead"
ErrAlbumTimeout == "Timeout loading album torrent - torrent may be dead"

\* A missing Map entry (asyncJobs.get(id) === undefined), and the fields an
\* object literal leaves out.
NoJob ==
  [status |-> "absent", type |-> "none", progress |-> 0, result |-> "none",
   error |-> "none", completedAt |-> FALSE, magnet |-> 0, expected |-> 0]

\* A wrong accept: the entry is not stored.
PendingJob_NotStored(type, m, expected) == NoJob

\* { status: 'pending', type, params, startedAt, progress: 0 }
PendingJob(type, m, expected) ==
  [status |-> "pending", type |-> type, progress |-> 0, result |-> "none",
   error |-> "none", completedAt |-> FALSE, magnet |-> m, expected |-> expected]

\* { ...asyncJobs.get(jobId), status: 'processing', progress: 10 }
ProcessingWrite(rec) ==
  [rec EXCEPT !.status = "processing", !.progress = 10]

\* A wrong progress update: it writes the status of a fresh entry back.
ProgressWrite_ResetsStatus(rec, p) ==
  [rec EXCEPT !.progress = p, !.status = "pending"]

\* { ...asyncJobs.get(jobId), progress: p }
ProgressWrite(rec, p) ==
  [rec EXCEPT !.progress = p]

\* { ...asyncJobs.get(jobId), status: 'completed', progress: 100,
\*   completedAt, result }
CompleteWrite(rec, result) ==
  [rec EXCEPT !.status = "completed", !.progress = 100,
              !.completedAt = TRUE, !.result = result]

\* A wrong empty completion: the result is left out.
CompleteEmptyWrite_NoResult(rec) ==
  [rec EXCEPT !.status = "completed", !.progress = 100]

\* The 'No suitable torrents found' completion: no completedAt is written.
CompleteEmptyWrite(rec) ==
  [rec EXCEPT !.status = "completed", !.progress = 100,
              !.result = "nosuitable"]

\* A wrong catch block: it records the failure and drops the progress.
FailWrite_ResetsProgress(rec, msg) ==
  [rec EXCEPT !.status = "failed", !.progress = 0,
              !.error = msg, !.completedAt = TRUE]

\* catch (error): { ...asyncJobs.get(jobId), status: 'failed', progress: 100,
\*   error: error.message, completedAt }
FailWrite(rec, msg) ==
  [rec EXCEPT !.status = "failed", !.progress = 100,
              !.error = msg, !.completedAt = TRUE]

\* A session the engine has never created.
NoHandle ==
  [magnet |-> 0, state |-> "none", ready |-> FALSE, audio |-> 0,
   owner |-> "none", job |-> 0, expected |-> 0, timer |-> FALSE,
   settled |-> FALSE, resp |-> 0, error |-> "none"]

\* A wrong creation promise: no timeout is armed.
NewHandle_NoTimeout(m, owner, j, expected) ==
  [magnet |-> m, state |-> "added", ready |-> FALSE, audio |-> 0,
   owner |-> owner, job |-> j, expected |-> expected, timer |-> FALSE,
   settled |-> FALSE, resp |-> 0, error |-> "none"]

\* torrentClient.add(magnet) inside a creation promise: the session, the
\* timeout armed for it, the promise not yet settled.  owner is the path that
\* awaits the promise, job and expected are that path's locals.
NewHandle(m, owner, j, expected) ==
  [magnet |-> m, state |-> "added", ready |-> FALSE, audio |-> 0,
   owner |-> owner, job |-> j, expected |-> expected, timer |-> TRUE,
   settled |-> FALSE, resp |-> 0, error |-> "none"]

\* torrentClient.add(magnet) by the pre-loader: no promise, no timeout.
PreloadHandle(m) ==
  [magnet |-> m, state |-> "added", ready |-> FALSE, audio |-> 0,
   owner |-> "preload", job |-> 0, expected |-> 0, timer |-> FALSE,
   settled |-> TRUE, resp |-> 0, error |-> "none"]

\* A task that is not running.
NoTask == [pc |-> "none", kind |-> "none", magnet |-> 0, expected |-> 0]

\* setImmediate(() => processTorrentSearchAsync(jobId, ...)) /
\* setImmediate(() => processTorrentStreamAsync(jobId, magnet, ..., expected))
ScheduledTask(kind, m, expected) ==
  [pc |-> "scheduled", kind |-> kind, magnet |-> m, expected |-> expected]

NoWrites == [job |-> 0, recs |-> <<>>]

\* No selection has answered yet.
NoAnswer == [path |-> "none", code |-> 0, error |-> "none", target |-> <<>>]

\* No stream-file request has been answered yet.
NoServed ==
  [magnet |-> 0, name |-> <<>>, range |-> <<>>, code |-> 0, error |-> "none",
   contentRange |-> <<>>, contentLength |-> 0, first |-> 0, last |-> 0]

\* No target of a ranking, and no ranking.
NoTarget == [trackTitle |-> <<>>, artistName |-> <<>>, albumTitle |-> <<>>]

NoRanked == [mode |-> "none", list |-> <<>>]

\* The calls of rateLimitedMusicBrainzCall.
CallerIds == 1..MaxCallers

\* A call that has not been made.
NoCaller == [pc |-> "idle", wakeAt |-> 0]

\* let lastMusicBrainzCall = 0: the epoch, MUSICBRAINZ_CONFIG.rateLimit or
\* more before the server started, counted in ms since the start.
NeverCalled == 0 - MinInterval

\* No polling loop.
NoPoller ==
  [kind |-> "none", attempts |-> 0, active |-> FALSE, last |-> "none"]

\* No torrent search, and a search that has not ended.
NoEnd == [status |-> "none", success |-> FALSE]

NoSearch ==
  [mode |-> "none", queries |-> 0, outcomes |-> <<>>, allTorrents |-> <<>>,
   end |-> NoEnd]

\* The requests of test-magnet.
ProbeIds == 1..MaxProbes

\* No probe: POST /api/test-magnet has not been called.
NoProbe ==
  [handle |-> "none", result |-> "none", basicTimer |-> FALSE,
   timeout |-> FALSE]

\* The requests of artist details, and the artists.
DetailIds == 1..MaxDetails

ArtistIds == 1..NumArtists

\* No request of artist details; no entry of preloadedAlbumTorrents
\* (Map.get gives undefined); no answer of artist-torrents yet.
NoDetail == [phase |-> "none", artist |-> 0, albums |-> 0]

NoEntry == [albums |-> <<>>, by |-> 0]

NoListed == [artist |-> 0, success |-> FALSE, albums |-> <<>>]


VARIABLES
  asyncJobs,       \* the job table: job id -> entry (NoJob when absent)
  created,         \* how many job ids have been returned to callers
  task,            \* each background task's position and locals
  writes,          \* the job the last handler wrote to and the entries it
                   \* wrote, after the entry it found: <<old, w1, w2, ...>>
  activeTorrents,  \* the registry: magnet -> handle id (0 when absent)
  handles,         \* the engine's sessions: handle id -> session
  timers,          \* pending job-deletion timers: [job, left]
  pollAge,         \* ms since the first poll that saw the job terminal (-1: none)
  deletedAge,      \* pollAge when the entry was deleted (-1: not deleted)
  thrown,          \* the message of the exception each task raised ("none")
  escaped,         \* tasks an exception has escaped from
  files,           \* torrent.files of the handle a selection runs on
  fileName,        \* the fileName (hint) of that request
  expectedFileCount, \* its expectedFileCount (0: not given)
  answer,          \* what the selection answered
  served,          \* the last request of stream-file and its response
  candidates,      \* the torrents the indexer queries collected
  target,          \* the track, artist and album a ranking is for
  ranked,          \* the last ranking: who ran it and its scored list
  reference,       \* the download URL or magnet link a caller holds
  resolved,        \* what the successive calls of resolveMagnetUrl returned
  fetched,         \* the responses of the HTTP requests resolveMagnetUrl made
  raised,          \* whether an exception has left resolveMagnetUrl
  added,           \* the calls of torrentClient.add: who called, with what
  details,         \* the requests of artist details: where each one is
  detailResponse,  \* what the caller of each one has received
  albumsWithTorrents, \* the album workflows of each request's pre-load
  preloadedAlbumTorrents, \* artist id -> cache entry (NoEntry when absent)
  preloadHandles,  \* the magnet links the pre-loader has a handle for
  listed,          \* the answer of artist-torrents, when the last step
                   \* was a request of it (NoListed otherwise)
  clock,           \* Date.now(), in ms since the server started
  lastMusicBrainzCall, \* when the rate limiter last let a call through
  callers,         \* each call of rateLimitedMusicBrainzCall: where it is
  sent,            \* the times at which calls were sent, in order
  poller,          \* the polling loop of the client: its kind, its
                   \* attempts, whether its interval is set, the last answer
  search,          \* a multi-query torrent search: its mode, its queries,
                   \* what each returned, allTorrents, how it ended
  probe            \* the link-validity probes: the temporary handle, the
                   \* result and the pending timers of each

\* The job table, the registry, the engine and the bookkeeping about them.
engineVars == <<asyncJobs, created, task, writes, activeTorrents, handles,
                timers, pollAge, deletedAge, thrown, escaped>>

\* The requests and responses of the file selector and of stream-file.
selectorVars == <<files, fileName, expectedFileCount, answer, served>>

\* The input and output of the rankings.
rankVars == <<candidates, target, ranked>>

\* The input and output of the magnet resolver and of its callers.
resolveVars == <<reference, resolved, fetched, raised, added>>

\* The artist-details requests, their pre-loads and the cache they fill.
preloadVars == <<details, detailResponse, albumsWithTorrents,
                 preloadedAlbumTorrents, preloadHandles, listed>>

\* The rate limiter of the metadata service and its callers.
limiterVars == <<clock, lastMusicBrainzCall, callers, sent>>

\* A polling loop of the client.
pollVars == <<poller>>

\* A multi-query torrent search.
searchVars == <<search>>

\* The link-validity probe.
probeVars == <<probe>>

\* The state of the smaller components.
extraVars == <<limiterVars, pollVars, searchVars, probeVars>>

\* The inputs and outputs of the functions modelled on their own, and the
\* pre-loader.
libVars == <<rankVars, resolveVars, preloadVars, extraVars>>

\* The requests and responses of the file selector and of stream-file, and
\* libVars.
ioVars == <<files, fileName, expectedFileCount, answer, served, libVars>>

vars == <<asyncJobs, created, task, writes, activeTorrents, handles, timers,
          pollAge, deletedAge, thrown, escaped, ioVars>>

\* No ranking has run.
IdleRank ==
  /\ candidates = <<>>
  /\ target = NoTarget
  /\ ranked = NoRanked

\* Nothing has been resolved.
IdleResolve ==
  /\ reference = <<>>
  /\ resolved = <<>>
  /\ fetched = <<>>
  /\ raised = FALSE
  /\ added = <<>>

\* No artist details have been requested and nothing is pre-loaded.
IdlePreload ==
  /\ details = [r \in DetailIds |-> NoDetail]
  /\ detailResponse = [r \in DetailIds |-> "none"]
  /\ albumsWithTorrents = [r \in DetailIds |-> <<>>]
  /\ preloadedAlbumTorrents = [a \in ArtistIds |-> NoEntry]
  /\ preloadHandles = {}
  /\ listed = NoListed

\* The rate limiter after start-up: no call has been made.
IdleLimiter ==
  /\ clock = 0
  /\ lastMusicBrainzCall = NeverCalled
  /\ callers = [c \in CallerIds |-> NoCaller]
  /\ sent = <<>>

\* The client polls nothing.
IdlePoll ==
  poller = NoPoller

\* No torrent search has started.
IdleSearch ==
  search = NoSearch

\* No probe has run.
IdleProbe ==
  probe = [p \in ProbeIds |-> NoProbe]

\* The smaller components after start-up.
IdleExtra == IdleLimiter /\ IdlePoll /\ IdleSearch /\ IdleProbe

\* Nothing has been handed to the functions modelled on their own.
IdleLib == IdleRank /\ IdleResolve /\ IdlePreload /\ IdleExtra

\* The job table, the registry and the engine after start-up.
IdleEngine ==
  /\ asyncJobs = [j \in JobIds |-> NoJob]
  /\ created = 0
  /\ task = [j \in JobIds |-> NoTask]
  /\ writes = NoWrites
  /\ activeTorrents = [m \in Magnets |-> 0]
  /\ handles = [h \in HandleIds |-> NoHandle]
  /\ timers = {}
  /\ pollAge = [j \in JobIds |-> -1]
  /\ deletedAge = [j \in JobIds |-> -1]
  /\ thrown = [j \in JobIds |-> "none"]
  /\ escaped = {}

\* No selection and no stream-file request has run.
IdleIo ==
  /\ files = <<>>
  /\ fileName = <<>>
  /\ expectedFileCount = 0
  /\ answer = NoAnswer
  /\ served = NoServed

Init ==
  /\ asyncJobs = [j \in JobIds |-> NoJob]
  /\ created = 0
  /\ task = [j \in JobIds |-> NoTask]
  /\ writes = NoWrites
  /\ activeTorrents = [m \in Magnets |-> 0]
  /\ handles = [h \in HandleIds |-> NoHandle]
  /\ timers = {}
  /\ pollAge = [j \in JobIds |-> -1]
  /\ deletedAge = [j \in JobIds |-> -1]
  /\ thrown = [j \in JobIds |-> "none"]
  /\ escaped = {}
  /\ files = <<>>
  /\ fileName = <<>>
  /\ expectedFileCount = 0
  /\ answer = NoAnswer
  /\ served = NoServed
  /\ IdleLib

\* ----------------------------------------------------------------- helpers
Min(a, b) == IF a < b THEN a ELSE b

Last(ws) == ws[Len(ws)]

UsedHandles == {h \in HandleIds : handles[h].state # "none"}

\* The next session object torrentClient.add returns: a fresh one each call.
FreshHandle == Cardinality(UsedHandles) + 1

\* Stream tasks accepted and not yet started: each may still call add.
WaitingStreamTasks ==
  {j \in JobIds : task[j].pc = "scheduled" /\ task[j].kind = "stream"}

\* Room for one more add, the adds of accepted tasks set aside.
CanAdd == Cardinality(UsedHandles) + Cardinality(WaitingStreamTasks) < MaxHandles

\* torrent.files filtered by the audio extensions: a handle has no files
\* before it is ready, and none once it is destroyed.
AudioOf(h) == IF handles[h].state = "ready" THEN handles[h].audio ELSE 0

\* expectedFileCount of a request body that has none.
NotGiven == -1

\* if (expectedFileCount && ...): a count that is given and not 0.
Truthy(expected) == expected \notin {0, NotGiven}

\* Wrong checks: the expected count is not looked at.
StreamOutcome_NoCount(n, expected) == IF n = 0 THEN ErrNoAudio ELSE "ok"

\* The checks of processStreamRequestAsync / processStreamRequest before a
\* file is selected.
StreamOutcome(n, expected) ==
  IF n = 0 THEN ErrNoAudio
  ELSE IF Truthy(expected) /\ n # expected THEN ErrCount
  ELSE "ok"

\* The status code of the endpoint that awaited a handle with n audio files.
ResponseCode(owner, n, expected) ==
  IF n = 0 THEN 404
  ELSE IF owner = "sync" /\ Truthy(expected) /\ n # expected THEN 400
  ELSE 200

\* A wrong try block: it starts after the creation promise.
TryCovers_NotCreation(msg) ==
  msg \in {ErrNoAudio, ErrCount, ErrUnexpected}

\* The try block of a background task spans its whole body: every throw
\* site is inside it.
TryCovers(msg) ==
  msg \in {ErrNoPeers, ErrSwarm, ErrNoAudio, ErrCount, ErrUnexpected}

\* What the task writes when `msg` is thrown with the entry at `rec`: the
\* catch block's entry, or nothing when the throw site is outside the try.
Catch(rec, msg) == IF TryCovers(msg) THEN <<FailWrite(rec, msg)>> ELSE <<>>

\* The job writes of a handler: the entry found, then each entry written.
WriteJob(j, ws) ==
  IF ws = <<>>
  THEN /\ writes' = NoWrites
       /\ UNCHANGED asyncJobs
  ELSE /\ asyncJobs' = [asyncJobs EXCEPT ![j] = Last(ws)]
       /\ writes' = [job |-> j, recs |-> <<asyncJobs[j]>> \o ws]

\* A task runs to its end: `ws` are the entries it writes, `msg` the message
\* of the exception it raised on the way ("none" when it raised none).
EndTask(j, ws, msg) ==
  /\ WriteJob(j, ws)
  /\ task' = [task EXCEPT ![j].pc = "done"]
  /\ thrown' = [thrown EXCEPT ![j] = msg]
  /\ escaped' = IF msg # "none" /\ ~TryCovers(msg) THEN escaped \cup {j}
                ELSE escaped

\* processTorrentStreamAsync from 'Update progress' (80) to its end, on a
\* torrent with n audio files.
StreamFinish(rec, n, expected) ==
  LET r80 == ProgressWrite(rec, 80)
      out == StreamOutcome(n, expected)
  IN IF out = "ok" THEN <<r80, CompleteWrite(r80, "stream")>>
     ELSE <<r80>> \o Catch(r80, out)

\* The message processStreamRequestAsync throws on n audio files.
StreamThrows(n, expected) ==
  IF StreamOutcome(n, expected) = "ok" THEN "none"
  ELSE StreamOutcome(n, expected)

\* ----------------------------------------------------------------- strings
\* A string is the sequence of its characters.
DigitChars == {"0", "1", "2", "3", "4", "5", "6", "7", "8", "9"}

DigitValue(c) ==
  CASE c = "0" -> 0 [] c = "1" -> 1 [] c = "2" -> 2 [] c = "3" -> 3
    [] c = "4" -> 4 [] c = "5" -> 5 [] c = "6" -> 6 [] c = "7" -> 7
    [] c = "8" -> 8 [] c = "9" -> 9

\* What parseInt and arithmetic on it give when there is no number.
NaN == -1000000

\* parseInt(s, 10) of a string of digits; NaN for the empty string.
RECURSIVE DigitsValue(_)
DigitsValue(s) ==
  IF s = <<>> THEN 0
  ELSE 10 * DigitsValue(SubSeq(s, 1, Len(s) - 1)) + DigitValue(s[Len(s)])

ParseInt(s) == IF s = <<>> THEN NaN ELSE DigitsValue(s)

\* String.prototype.toLowerCase on the letters the names use.
ToLowerChar(c) ==
  CASE c = "A" -> "a" [] c = "B" -> "b" [] c = "M" -> "m" [] c = "P" -> "p"
    [] c = "C" -> "c" [] c = "F" -> "f" [] c = "L" -> "l" [] c = "S" -> "s"
    [] OTHER -> c

ToLowerCase(s) == [i \in 1..Len(s) |-> ToLowerChar(s[i])]

\* String.prototype.includes: the empty string is included in every string.
Includes(s, t) ==
  \E i \in 0..(Len(s) - Len(t)) : SubSeq(s, i + 1, i + Len(t)) = t

\* String.prototype.endsWith
EndsWith(s, t) ==
  Len(t) <= Len(s) /\ SubSeq(s, Len(s) - Len(t) + 1, Len(s)) = t

\* The end of the run of characters of `set` that starts at position i of s
\* (i - 1 when s[i] is not in the set).
RECURSIVE RunEnd(_, _, _)
RunEnd(s, i, set) ==
  IF i <= Len(s) /\ s[i] \in set THEN RunEnd(s, i + 1, set) ELSE i - 1

\* fileName.match(/(?:track\s*)?(\d+)/i)[1]: the leftmost match ends in the
\* first run of digits of the string, whether or not 'track' precedes it;
\* <<>> when the string has no digit (match is null).
TrackNumberMatch(s) ==
  LET ds == {i \in 1..Len(s) : s[i] \in DigitChars}
  IN IF ds = {} THEN <<>>
     ELSE LET i == CHOOSE x \in ds : \A y \in ds : x <= y
          IN SubSeq(s, i, RunEnd(s, i, DigitChars))

\* s.replace(/^\d+[\s\-\.]*/, ''): a leading run of digits and the spaces,
\* dashes and dots after it are removed.
StripNumericPrefix(s) ==
  IF s # <<>> /\ s[1] \in DigitChars
  THEN LET d == RunEnd(s, 1, DigitChars)
           e == RunEnd(s, d + 1, {" ", "-", "."})
       IN SubSeq(s, e + 1, Len(s))
  ELSE s

\* The primary weight of a character in the collation localeCompare uses:
\* spaces and punctuation, then digits, then letters, upper and lower case
\* alike.
CollationWeight(c) ==
  CASE c = " " -> 1 [] c = "-" -> 2 [] c = "." -> 3
    [] c \in DigitChars -> 10 + DigitValue(c)
    [] ToLowerChar(c) = "a" -> 21 [] ToLowerChar(c) = "b" -> 22
    [] ToLowerChar(c) = "c" -> 23 [] ToLowerChar(c) = "f" -> 26
    [] ToLowerChar(c) = "l" -> 32 [] ToLowerChar(c) = "m" -> 33
    [] ToLowerChar(c) = "p" -> 36 [] ToLowerChar(c) = "t" -> 40
    [] ToLowerChar(c) = "x" -> 44 [] ToLowerChar(c) = "z" -> 46

\* a.localeCompare(b): negative, zero or positive.  The strings are compared
\* by primary weight, character by character, a proper prefix first; strings
\* that differ only in case are ordered lower case first.
LocaleCompare(a, b) ==
  LET n == IF Len(a) < Len(b) THEN Len(a) ELSE Len(b)
      dw == {i \in 1..n : CollationWeight(a[i]) # CollationWeight(b[i])}
      dc == {i \in 1..n : a[i] # b[i]}
  IN IF dw # {}
     THEN LET i == CHOOSE x \in dw : \A y \in dw : x <= y
          IN IF CollationWeight(a[i]) < CollationWeight(b[i]) THEN -1 ELSE 1
     ELSE IF Len(a) # Len(b) THEN (IF Len(a) < Len(b) THEN -1 ELSE 1)
     ELSE IF dc # {}
     THEN LET i == CHOOSE x \in dc : \A y \in dc : x <= y
          IN IF ToLowerChar(a[i]) = a[i] THEN -1 ELSE 1
     ELSE 0

\* A wrong sort: the files are left in the order they came in.
SortByName_Unsorted(fs) == fs

\* [...fs].sort((a, b) => a.name.localeCompare(b.name)): Array.prototype.sort
\* is stable, files that compare equal keep their order.
RECURSIVE SortByName(_)
SortByName(fs) ==
  IF fs = <<>> THEN <<>>
  ELSE LET x == fs[Len(fs)]
           front == SortByName(SubSeq(fs, 1, Len(fs) - 1))
           k == Cardinality({i \in 1..Len(front) :
                               LocaleCompare(front[i], x) <= 0})
       IN SubSeq(front, 1, k) \o <<x>> \o SubSeq(front, k + 1, Len(front))

\* ----------------------------------------------------------- file selector
\* const audioExtensions = ['.mp3', '.flac', '.wav', '.m4a', '.aac', '.ogg',
\* '.wma']
AudioExtensions ==
  {<<".", "m", "p", "3">>, <<".", "f", "l", "a", "c">>, <<".", "w", "a", "v">>,
   <<".", "m", "4", "a">>, <<".", "a", "a", "c">>, <<".", "o", "g", "g">>,
   <<".", "w", "m", "a">>}

\* audioExtensions.some(ext => file.name.toLowerCase().endsWith(ext))
IsAudio(name) == \E ext \in AudioExtensions : EndsWith(ToLowerCase(name), ext)

\* torrent.files.filter(...): the audio files, in the engine's order.
AudioFilter(fs) == SelectSeq(fs, IsAudio)

\* The value of a find that matched nothing, of an unset targetFile.
Undefined == <<>>

\* Array.prototype.find: the first element, in the array's order, that
\* satisfies the predicate; hits are the indices of those that satisfy it.
Find(fs, hits) ==
  IF hits = {} THEN Undefined
  ELSE fs[CHOOSE i \in hits : \A k \in hits : i <= k]

\* file.name.toLowerCase() === fileName.toLowerCase()
ExactMatch(audioFiles, hint) ==
  LET Same(f) == ToLowerCase(f) = ToLowerCase(hint)
  IN Find(audioFiles, {i \in 1..Len(audioFiles) : Same(audioFiles[i])})

\* file name includes the hint or the hint includes the file name, both
\* lower-cased
PartialMatch(audioFiles, hint) ==
  LET Part(f) == \/ Includes(ToLowerCase(f), ToLowerCase(hint))
                 \/ Includes(ToLowerCase(hint), ToLowerCase(f))
  IN Find(audioFiles, {i \in 1..Len(audioFiles) : Part(audioFiles[i])})

\* The track number extracted from the hint, 1-indexed into the files sorted
\* by name, when it is in range.
TrackNumberPick(audioFiles, hint) ==
  LET trackNumberMatch == TrackNumberMatch(hint)
      trackNumber == ParseInt(trackNumberMatch)
      sortedAudioFiles == SortByName(audioFiles)
  IN IF trackNumberMatch # <<>> /\ trackNumber > 0
          /\ trackNumber <= Len(sortedAudioFiles)
     THEN sortedAudioFiles[trackNumber]
     ELSE Undefined

\* Fuzzy matching: the numeric prefixes removed from both names.
FuzzyMatch(audioFiles, hint) ==
  LET cleanFileName == ToLowerCase(StripNumericPrefix(hint))
      Fuzzy(f) ==
        LET cleanFile == ToLowerCase(StripNumericPrefix(f))
        IN Includes(cleanFile, cleanFileName) \/ Includes(cleanFileName, cleanFile)
  IN Find(audioFiles, {i \in 1..Len(audioFiles) : Fuzzy(audioFiles[i])})

\* A wrong fallback: the first file as the engine lists them.
FirstByName_Unsorted(audioFiles) == audioFiles[1]

\* sortedAudioFiles[0]
FirstByName(audioFiles) == SortByName(audioFiles)[1]

\* The first of the candidates, in order, that is not undefined.
RECURSIVE FirstDefined(_)
FirstDefined(cands) ==
  IF cands = <<>> THEN Undefined
  ELSE IF cands[1] # Undefined THEN cands[1]
  ELSE FirstDefined(SubSeq(cands, 2, Len(cands)))

\* The matching steps each copy of the selection runs when a hint is given:
\* the endpoint's own copy ("sync"), processStreamRequest ("ready") and
\* processStreamRequestAsync ("job").
HintedPick(path, audioFiles, hint) ==
  IF path = "sync"
  THEN FirstDefined(<<ExactMatch(audioFiles, hint),
                      PartialMatch(audioFiles, hint),
                      TrackNumberPick(audioFiles, hint),
                      FuzzyMatch(audioFiles, hint)>>)
  ELSE IF path = "ready"
  THEN FirstDefined(<<ExactMatch(audioFiles, hint),
                      PartialMatch(audioFiles, hint),
                      TrackNumberPick(audioFiles, hint)>>)
  ELSE FirstDefined(<<ExactMatch(audioFiles, hint),
                      PartialMatch(audioFiles, hint)>>)

\* A wrong selection: the fallback to the first file by name is left out.
SelectFile_NoFallback(path, audioFiles, hint) ==
  IF hint # <<>> THEN HintedPick(path, audioFiles, hint) ELSE Undefined

\* let targetFile; if (fileName) { ... } if (!targetFile) { first by name }
SelectFile(path, audioFiles, hint) ==
  LET targetFile == IF hint # <<>> THEN HintedPick(path, audioFiles, hint)
                    ELSE Undefined
  IN IF targetFile = Undefined THEN FirstByName(audioFiles) ELSE targetFile

\* What preparing a stream answers on a handle with files fs: the
\* eligibility checks, then the selection.
ProcessStream(path, fs, hint, expected) ==
  LET audioFiles == AudioFilter(fs)
      out == StreamOutcome(Len(audioFiles), expected)
  IN IF out # "ok"
     THEN [path |-> path, error |-> out, target |-> Undefined,
           code |-> IF path = "job" THEN 0
                    ELSE ResponseCode("sync", Len(audioFiles), expected)]
     ELSE [path |-> path, error |-> "none",
           target |-> SelectFile(path, audioFiles, hint),
           code |-> IF path = "job" THEN 0 ELSE 200]

\* --------------------------------------------------- job orchestrator: accept
\* POST /api/find-best-torrent, async mode: store the entry, answer with the
\* job id, schedule the task.
FindBestTorrentAsync ==
  /\ created < MaxJobs
  /\ LET j == created + 1 IN
       /\ WriteJob(j, <<PendingJob("find-best-torrent", 0, 0)>>)
       /\ task' = [task EXCEPT ![j] = ScheduledTask("search", 0, 0)]
  /\ created' = created + 1
  /\ UNCHANGED <<activeTorrents, handles, timers, pollAge, deletedAge, thrown, escaped, ioVars>>

\* What POST /api/stream-torrent answers from a registered handle h without
\* waiting: processStreamRequest on a ready one, the inline checks on one
\* that is 'existing' but not ready.
StreamTorrentResponse(h, expected) == ResponseCode("sync", AudioOf(h), expected)

\* POST /api/stream-torrent for a resolved magnet m.
StreamTorrent(m, expected, useAsync) ==
  LET h == activeTorrents[m] IN
  IF h # 0 /\ handles[h].ready
  THEN \* answered at once with StreamTorrentResponse(h, expected)
       /\ writes' = NoWrites
       /\ UNCHANGED <<asyncJobs, created, task, activeTorrents, handles,
                      timers, pollAge, deletedAge, thrown, escaped, ioVars>>
  ELSE IF useAsync
  THEN \* the accept path: entry stored, job id returned, task scheduled
       /\ created < MaxJobs
       /\ CanAdd
       /\ LET j == created + 1 IN
            /\ WriteJob(j, <<PendingJob("stream-torrent", m, expected)>>)
            /\ task' = [task EXCEPT ![j] = ScheduledTask("stream", m, expected)]
       /\ created' = created + 1
       /\ UNCHANGED <<activeTorrents, handles, timers, pollAge, deletedAge,
                      thrown, escaped, ioVars>>
  ELSE IF h = 0
  THEN \* synchronous mode: add and await ready, error or the timeout
       /\ CanAdd
       /\ handles' = [handles EXCEPT
                        ![FreshHandle] = NewHandle(m, "sync", 0, expected)]
       /\ writes' = NoWrites
       /\ UNCHANGED <<asyncJobs, created, task, activeTorrents, timers,
                      pollAge, deletedAge, thrown, escaped, ioVars>>
  ELSE \* 'Using existing torrent': answered at once from a handle that is
       \* not ready
       /\ writes' = NoWrites
       /\ UNCHANGED <<asyncJobs, created, task, activeTorrents, handles,
                      timers, pollAge, deletedAge, thrown, escaped, ioVars>>

\* POST /api/torrent-tracks ("tracks") and POST /api/play-album-track
\* ("album") up to their response: reuse the registered handle or add one.
ListingRequest(path, m) ==
  LET h == activeTorrents[m] IN
  IF h = 0
  THEN /\ CanAdd
       /\ handles' = [handles EXCEPT
                        ![FreshHandle] = NewHandle(m, path, 0, 0)]
       /\ writes' = NoWrites
       /\ UNCHANGED <<asyncJobs, created, task, activeTorrents, timers,
                      pollAge, deletedAge, thrown, escaped, ioVars>>
  ELSE \* answered at once with ResponseCode(path, AudioOf(h), 0)
       /\ writes' = NoWrites
       /\ UNCHANGED <<asyncJobs, created, task, activeTorrents, handles,
                      timers, pollAge, deletedAge, thrown, escaped, ioVars>>

TorrentTracks(m) == ListingRequest("tracks", m)

PlayAlbumTrack(m) == ListingRequest("album", m)

\* The pre-loader's warm-up of one resolved magnet: add and register at once
\* unless the registry has the magnet.
PreloadAdd(m) ==
  /\ activeTorrents[m] = 0
  /\ CanAdd
  /\ handles' = [handles EXCEPT ![FreshHandle] = PreloadHandle(m)]
  /\ activeTorrents' = [activeTorrents EXCEPT ![m] = FreshHandle]
  /\ writes' = NoWrites
  /\ UNCHANGED <<asyncJobs, created, task, timers, pollAge, deletedAge, thrown, escaped, ioVars>>

\* POST /api/cleanup-torrents: destroy every registered handle and delete
\* its entry.
CleanupTorrents ==
  /\ handles' = [h \in HandleIds |->
                   IF \E m \in Magnets : activeTorrents[m] = h
                   THEN [handles[h] EXCEPT !.state = "destroyed", !.audio = 0,
                                           !.timer = FALSE]
                   ELSE handles[h]]
  /\ activeTorrents' = [m \in Magnets |-> 0]
  /\ writes' = NoWrites
  /\ UNCHANGED <<asyncJobs, created, task, timers, pollAge, deletedAge, thrown, escaped, ioVars>>

\* ------------------------------------------------ job orchestrator: the tasks
\* processTorrentStreamAsync from its start to its first await, or to its end
\* when the registry already has the magnet.
StreamTaskStart(j) ==
  /\ task[j].pc = "scheduled"
  /\ task[j].kind = "stream"
  /\ LET m == task[j].magnet
         h == activeTorrents[m]
         r10 == ProcessingWrite(asyncJobs[j])
     IN IF h # 0
        THEN /\ EndTask(j, <<r10>> \o StreamFinish(r10, AudioOf(h), task[j].expected),
                        StreamThrows(AudioOf(h), task[j].expected))
             /\ UNCHANGED handles
        ELSE /\ WriteJob(j, <<r10, ProgressWrite(r10, 20)>>)
             /\ handles' = [handles EXCEPT
                  ![FreshHandle] = NewHandle(m, "job", j, task[j].expected)]
             /\ task' = [task EXCEPT ![j].pc = "awaitCreate"]
             /\ UNCHANGED <<thrown, escaped>>
  /\ UNCHANGED <<created, activeTorrents, timers, pollAge, deletedAge, ioVars>>

\* A wrong catch: a rejected creation is answered like a success.
SettledResponse_NoError(h, ok, n) ==
  IF handles[h].owner \in {"job", "preload"} THEN 0
  ELSE ResponseCode(handles[h].owner, n, handles[h].expected)

\* The status code the endpoint awaiting handle h answers when the creation
\* promise settles: `ok` is resolve(addedTorrent) with n audio files,
\* otherwise the rejection reaches the endpoint's catch.  The pre-loader and
\* the background task answer nobody.
SettledResponse(h, ok, n) ==
  IF handles[h].owner \in {"job", "preload"} THEN 0
  ELSE IF ok THEN ResponseCode(handles[h].owner, n, handles[h].expected)
  ELSE 500

\* What settling the creation promise of handle h does to the background
\* task awaiting it, if one does: resolve with n audio files, or reject with
\* message msg.
SettleTask(h, ok, n, msg) ==
  LET j == handles[h].job IN
  IF handles[h].owner = "job"
  THEN IF ok
       THEN EndTask(j, StreamFinish(asyncJobs[j], n, handles[h].expected),
                    StreamThrows(n, handles[h].expected))
       ELSE EndTask(j, Catch(asyncJobs[j], msg), msg)
  ELSE /\ writes' = NoWrites
       /\ UNCHANGED <<asyncJobs, task, thrown, escaped>>

\* reject(new Error(...)) in the creation timeout of each path.
TimeoutMessage(owner) ==
  IF owner = "sync" THEN ErrNoPeersSync
  ELSE IF owner = "tracks" THEN ErrTracksTimeout
  ELSE IF owner = "album" THEN ErrAlbumTimeout
  ELSE ErrNoPeers

\* The engine emits 'ready' on handle h, with n audio files among its files.
HandleReady(h, n) ==
  /\ handles[h].state = "added"
  /\ handles' = [handles EXCEPT ![h].state = "ready", ![h].ready = TRUE,
                                ![h].audio = n, ![h].timer = FALSE,
                                ![h].settled = TRUE,
                                ![h].resp = SettledResponse(h, TRUE, n)]
  /\ IF handles[h].settled
     THEN \* the pre-loader's listener only logs
          /\ writes' = NoWrites
          /\ UNCHANGED <<asyncJobs, task, thrown, escaped, activeTorrents>>
     ELSE \* clearTimeout, resolve, then activeTorrents.set(magnet, torrent)
          /\ activeTorrents' = [activeTorrents EXCEPT ![handles[h].magnet] = h]
          /\ SettleTask(h, TRUE, n, "none")
  /\ UNCHANGED <<created, timers, pollAge, deletedAge, ioVars>>

\* The engine emits 'error' on handle h and tears the session down.
HandleError(h) ==
  /\ handles[h].state \in {"added", "ready"}
  /\ handles' = [handles EXCEPT
       ![h].state = "destroyed", ![h].audio = 0, ![h].timer = FALSE,
       ![h].settled = TRUE,
       ![h].resp = IF handles[h].settled THEN @
                   ELSE SettledResponse(h, FALSE, 0),
       ![h].error = IF handles[h].settled THEN @ ELSE ErrSwarm]
  /\ IF handles[h].owner = "preload"
     THEN \* activeTorrents.delete(resolvedMagnetUrl)
          /\ activeTorrents' = [activeTorrents EXCEPT ![handles[h].magnet] = 0]
          /\ writes' = NoWrites
          /\ UNCHANGED <<asyncJobs, task, thrown, escaped>>
     ELSE IF handles[h].settled
     THEN \* reject on a settled promise does nothing
          /\ writes' = NoWrites
          /\ UNCHANGED <<asyncJobs, task, thrown, escaped, activeTorrents>>
     ELSE /\ SettleTask(h, FALSE, 0, ErrSwarm)
          /\ UNCHANGED activeTorrents
  /\ UNCHANGED <<created, timers, pollAge, deletedAge, ioVars>>

\* The creation timeout of handle h fires: destroy the handle and reject.
CreateTimeout(h) ==
  /\ handles[h].timer
  /\ handles' = [handles EXCEPT
       ![h].state = "destroyed", ![h].audio = 0, ![h].timer = FALSE,
       ![h].settled = TRUE, ![h].resp = SettledResponse(h, FALSE, 0),
       ![h].error = TimeoutMessage(handles[h].owner)]
  /\ SettleTask(h, FALSE, 0, TimeoutMessage(handles[h].owner))
  /\ UNCHANGED <<created, activeTorrents, timers, pollAge, deletedAge, ioVars>>

\* processTorrentSearchAsync from its start to the metadata call.
SearchTaskStart(j) ==
  /\ task[j].pc = "scheduled"
  /\ task[j].kind = "search"
  /\ LET r10 == ProcessingWrite(asyncJobs[j])
     IN WriteJob(j, <<r10, ProgressWrite(r10, 20)>>)
  /\ task' = [task EXCEPT ![j].pc = "awaitMetadata"]
  /\ UNCHANGED <<created, activeTorrents, handles, timers, pollAge,
                 deletedAge, thrown, escaped, ioVars>>

\* The metadata call returns or fails (its error is caught and logged); the
\* queries are built and handed to searchMultipleTorrentQueries.
SearchMetadataReturn(j) ==
  /\ task[j].pc = "awaitMetadata"
  /\ LET r40 == ProgressWrite(asyncJobs[j], 40)
     IN WriteJob(j, <<r40, ProgressWrite(r40, 50)>>)
  /\ task' = [task EXCEPT ![j].pc = "awaitIndexer"]
  /\ UNCHANGED <<created, activeTorrents, handles, timers, pollAge,
                 deletedAge, thrown, escaped, ioVars>>

\* processTorrentSearchAsync from 'Update progress' (70) to its end, on the
\* collected candidates: `found` when one of them has seeders, `bad` when one
\* of them is no candidate object, which makes scoring throw.
SearchFinish(rec, found, bad) ==
  LET r70 == ProgressWrite(rec, 70)
      r90 == ProgressWrite(r70, 90)
  IN IF bad THEN <<r70>> \o Catch(r70, ErrUnexpected)
     ELSE IF ~found THEN <<r70, r90, CompleteEmptyWrite(r90)>>
     ELSE <<r70, r90, CompleteWrite(r90, "best")>>

\* searchMultipleTorrentQueries returns what the indexer queries collected
\* (a failed query is caught inside it and collects nothing); the task runs
\* to its end.
SearchIndexerReturn(j, found, bad) ==
  /\ task[j].pc = "awaitIndexer"
  /\ EndTask(j, SearchFinish(asyncJobs[j], found, bad),
             IF bad THEN ErrUnexpected ELSE "none")
  /\ UNCHANGED <<created, activeTorrents, handles, timers, pollAge, deletedAge, ioVars>>

\* --------------------------------------------- job orchestrator: polling
\* A wrong poll: it arms the deletion timer whatever the status.
PollSchedulesCleanup_Always(job) == TRUE

\* if (job.status === 'completed' || job.status === 'failed')
PollSchedulesCleanup(job) == job.status \in Terminal

\* A wrong poll: it clears the job's earlier timers and arms a new one.
ScheduleDelete_Rearm(ts, j) ==
  {t \in ts : t.job # j} \cup {[job |-> j, left |-> JOB_RETENTION_MS]}

\* setTimeout(() => asyncJobs.delete(jobId), 300000): one more timer
ScheduleDelete(ts, j) == ts \cup {[job |-> j, left |-> JOB_RETENTION_MS]}

\* What GET /api/job-status/:jobId answers: 404 when the table has no entry,
\* otherwise the entry itself.
JobStatusResponse(j) ==
  IF asyncJobs[j] = NoJob THEN [code |-> 404, body |-> NoJob]
  ELSE [code |-> 200, body |-> asyncJobs[j]]

\* GET /api/job-status/:jobId: answer, then arm a deletion timer if the
\* entry is terminal.
JobStatus(j) ==
  LET r == JobStatusResponse(j) IN
  /\ timers' = IF r.code = 200 /\ PollSchedulesCleanup(r.body)
               THEN ScheduleDelete(timers, j) ELSE timers
  /\ pollAge' = IF r.code = 200 /\ r.body.status \in Terminal /\ pollAge[j] = -1
                THEN [pollAge EXCEPT ![j] = 0] ELSE pollAge
  /\ writes' = NoWrites
  /\ UNCHANGED <<asyncJobs, created, task, activeTorrents, handles,
                 deletedAge, thrown, escaped, ioVars>>

\* A deletion timer fires: asyncJobs.delete(jobId).
JobExpire(t) ==
  /\ t \in timers
  /\ t.left = 0
  /\ timers' = timers \ {t}
  /\ asyncJobs' = [asyncJobs EXCEPT ![t.job] = NoJob]
  /\ deletedAge' = IF asyncJobs[t.job] # NoJob
                   THEN [deletedAge EXCEPT ![t.job] = pollAge[t.job]]
                   ELSE deletedAge
  /\ writes' = NoWrites
  /\ UNCHANGED <<created, task, activeTorrents, handles, pollAge, thrown,
                 escaped, ioVars>>

\* Time passes: by at most TickMs, and not past a timer that is due.
Tick ==
  /\ \A t \in timers : t.left > 0
  /\ LET lefts == {t.left : t \in timers} \cup {TickMs}
         d == CHOOSE x \in lefts : \A y \in lefts : x <= y
     IN /\ timers' = {[job |-> t.job, left |-> t.left - d] : t \in timers}
        /\ pollAge' = [j \in JobIds |->
                         IF pollAge[j] = -1 THEN -1
                         ELSE Min(pollAge[j] + d, JOB_RETENTION_MS + 1)]
  /\ writes' = NoWrites
  /\ UNCHANGED <<asyncJobs, created, task, activeTorrents, handles,
                 deletedAge, thrown, escaped, ioVars>>

\* ------------------------------------------------- file selector: requests
\* The names a torrent's files are drawn from: two that differ in case only,
\* one that starts with a capital, one with a numeric prefix, one that is no
\* audio file.
FileNames ==
  {<<"a", ".", "m", "p", "3">>, <<"A", ".", "M", "P", "3">>,
   <<"B", ".", "m", "p", "3">>,
   <<"b", ".", "f", "l", "a", "c">>,
   <<"1", "-", "a", ".", "f", "l", "a", "c">>,
   <<"a", ".", "t", "x", "t">>}

\* torrent.files as the engine may enumerate them: distinct names, any order.
FileLists ==
  UNION {{fs \in [1..n -> FileNames] :
            \A i \in 1..n, k \in 1..n : i # k => fs[i] # fs[k]} :
         n \in 0..MaxFiles}

\* The pieces hints are put together from.
HintParts ==
  {<<"a">>, <<"B">>, <<"z">>, <<"0">>, <<"2">>, <<"9", "-">>,
   <<".", "m", "p", "3">>, <<".", "f", "l", "a", "c">>}

RECURSIVE HintsOf(_)
HintsOf(n) ==
  IF n = 0 THEN {<<>>}
  ELSE HintsOf(n - 1) \cup {h \o q : h \in HintsOf(n - 1), q \in HintParts}

\* fileName as requests give it: absent or empty (<<>>), or a string.
Hints == HintsOf(MaxHintParts)

\* A request to prepare a stream reaches the selection of one of the three
\* copies, on a handle whose files are `files`.
Prepare(path) ==
  /\ answer = NoAnswer
  /\ answer' = ProcessStream(path, files, fileName, expectedFileCount)
  /\ UNCHANGED <<asyncJobs, created, task, writes, activeTorrents, handles,
                 timers, pollAge, deletedAge, thrown, escaped, files,
                 fileName, expectedFileCount, served, libVars>>

\* POST /api/stream-torrent after it awaited the creation of the handle.
PrepareSync == Prepare("sync")

\* POST /api/stream-torrent on a registered ready handle.
PrepareReady == Prepare("ready")

\* processTorrentStreamAsync once it has its handle.
PrepareJob == Prepare("job")

\* ------------------------------------------------------------ stream-file
\* The decimal digit of a number below ten.
DigitChar(n) == CHOOSE c \in DigitChars : DigitValue(c) = n

\* The name and the length in bytes of the i-th file of a torrent.
TrackName(i) == <<DigitChar(i), ".", "m", "p", "3">>

TrackLength(i) == i + 1

\* A wrong file list: every name is a file of every registered handle.
FilesOf_Any(h) == [i \in 1..MaxAudio |-> TrackName(i)]

\* torrent.files of handle h.
FilesOf(h) == [i \in 1..AudioOf(h) |-> TrackName(i)]

\* targetFile.length
FileLength(name) ==
  TrackLength(CHOOSE i \in 1..MaxAudio : TrackName(i) = name)

\* One side of 'bytes=s-e' after replace and split('-'): digits or nothing.
RangeParts == {<<>>} \cup {<<DigitChar(n)>> : n \in 0..MaxRange}

\* req.headers.range: absent (<<>>) or the two sides of the dash.
RangeHeaders == {<<>>} \cup (RangeParts \X RangeParts)

\* A wrong subtraction: the operands are swapped.
Minus_Swapped(a, b) == IF a = NaN \/ b = NaN THEN NaN ELSE b - a

\* a - b as JavaScript computes it on numbers that may be NaN.
Minus(a, b) == IF a = NaN \/ b = NaN THEN NaN ELSE a - b

\* What GET /api/stream-file/:magnetLink/:fileName answers.
StreamFileResponse(m, name, range) ==
  LET h == activeTorrents[m]
      Named(f) == f = name
      targetFile ==
        IF h = 0 THEN Undefined
        ELSE Find(FilesOf(h), {i \in 1..Len(FilesOf(h)) : Named(FilesOf(h)[i])})
      req == [magnet |-> m, name |-> name, range |-> range]
  IN IF h = 0
     THEN req @@ [code |-> 404, error |-> "Torrent not found",
                  contentRange |-> <<>>, contentLength |-> 0,
                  first |-> 0, last |-> -1]
     ELSE IF targetFile = Undefined
     THEN req @@ [code |-> 404, error |-> "File not found in torrent",
                  contentRange |-> <<>>, contentLength |-> 0,
                  first |-> 0, last |-> -1]
     ELSE IF range # <<>>
     THEN LET start == ParseInt(range[1])
              end == IF range[2] # <<>> THEN ParseInt(range[2])
                     ELSE FileLength(targetFile) - 1
              chunksize == IF Minus(end, start) = NaN THEN NaN
                           ELSE Minus(end, start) + 1
          IN req @@ [code |-> 206, error |-> "none",
                     contentRange |-> <<start, end, FileLength(targetFile)>>,
                     contentLength |-> chunksize,
                     first |-> start, last |-> end]
     ELSE req @@ [code |-> 200, error |-> "none", contentRange |-> <<>>,
                  contentLength |-> FileLength(targetFile),
                  first |-> 0, last |-> FileLength(targetFile) - 1]

\* GET /api/stream-file/:magnetLink/:fileName
StreamFile(m, name, range) ==
  /\ served' = StreamFileResponse(m, name, range)
  /\ writes' = NoWrites
  /\ UNCHANGED <<asyncJobs, created, task, activeTorrents, handles, timers,
                 pollAge, deletedAge, thrown, escaped, files, fileName,
                 expectedFileCount, answer, libVars>>

\* --------------------------------------------------------- ranking engine
\* s.split(' '): the pieces between single spaces; an empty string gives one
\* empty piece.
RECURSIVE Split(_)
Split(s) ==
  LET sp == {i \in 1..Len(s) : s[i] = " "}
  IN IF sp = {} THEN <<s>>
     ELSE LET i == CHOOSE x \in sp : \A y \in sp : x <= y
          IN <<SubSeq(s, 1, i - 1)>> \o Split(SubSeq(s, i + 1, Len(s)))

\* s.split(/\s+/): a run of spaces separates like one space.
SplitRuns(s) ==
  LET Kept(i) == ~(s[i] = " " /\ i > 1 /\ s[i - 1] = " ")
      n == Cardinality({i \in 1..Len(s) : Kept(i)})
      At(k) == CHOOSE i \in 1..Len(s) :
                 Kept(i) /\ Cardinality({x \in 1..i : Kept(x)}) = k
  IN Split([k \in 1..n |-> s[At(k)]])

\* `${a} ${b}`
Spaced(a, b) == a \o <<" ">> \o b

\* Math.round of the fraction n / d, d positive: the nearest integer, a half
\* rounded up.
Round(n, d) == (2 * n + d) \div (2 * d)

\* How many words of ws, counted as often as they occur, are longer than two
\* characters and are among `hits`.
CountWords(ws, hits) ==
  Cardinality({i \in 1..Len(ws) : Len(ws[i]) > 2 /\ ws[i] \in hits})

\* The words of ws.
Words(ws) == {ws[i] : i \in 1..Len(ws)}

\* { ...torrent, score }
Scored(torrent, score) == [score |-> score] @@ torrent

\* A wrong sort: the lowest score first.
SortByScore_Ascending(ts) ==
  LET n == Len(ts)
      Before(i, k) == ts[i].score < ts[k].score
                        \/ (ts[i].score = ts[k].score /\ i < k)
      Rank(i) == 1 + Cardinality({k \in 1..n : Before(k, i)})
  IN [r \in 1..n |-> ts[CHOOSE i \in 1..n : Rank(i) = r]]

\* .sort((a, b) => b.score - a.score): the highest score first;
\* Array.prototype.sort is stable, equal scores keep their order.
SortByScore(ts) ==
  LET n == Len(ts)
      Before(i, k) == ts[i].score > ts[k].score
                        \/ (ts[i].score = ts[k].score /\ i < k)
      Rank(i) == 1 + Cardinality({k \in 1..n : Before(k, i)})
  IN [r \in 1..n |-> ts[CHOOSE i \in 1..n : Rank(i) = r]]

\* A wrong filter of find-best-torrent: the publish date is not looked at.
IsKept_AnyAge(torrent) == torrent.seeders > 0

\* The first filter of find-best-torrent: publishDate <= twoDaysAgo and
\* seeders > 0.  age is the time since publishDate, in whole days.
IsKept(torrent) == torrent.age >= 2 /\ torrent.seeders > 0

\* The score find-best-torrent gives a torrent for trackTitle, artistName
\* and albumTitle (<<>> when the request has none).
PreciseScore(torrent, tg) ==
  LET title == ToLowerCase(torrent.title)
      trackLower == ToLowerCase(tg.trackTitle)
      artistLower == ToLowerCase(tg.artistName)
      titleWords == SplitRuns(trackLower)
      inTitle == {word \in Words(titleWords) : Includes(title, word)}
      matchedWords == CountWords(titleWords, inTitle)
      seederScore == torrent.seeders * 10
      artistScore == IF artistLower # <<>> /\ Includes(title, artistLower)
                     THEN 500 ELSE 0
      albumScore == IF tg.albumTitle # <<>>
                         /\ Includes(title, ToLowerCase(tg.albumTitle))
                    THEN 300 ELSE 0
      formatScore == IF Includes(title, <<"f", "l", "a", "c">>) THEN 200
                     ELSE IF Includes(title, <<"m", "p", "3">>) THEN 100
                     ELSE 0
      sizePenalty == IF torrent.size > 500 THEN 200 ELSE 0
      ageBonus == IF torrent.age > 30 THEN 50 ELSE 0
      ratioBonus == IF torrent.seeders > 0 /\ torrent.leechers > 0
                         /\ torrent.seeders > 2 * torrent.leechers
                    THEN 100 ELSE 0
  IN seederScore + artistScore + albumScore + formatScore - sizePenalty
       + ageBonus + ratioBonus + Round(matchedWords * 1000, Len(titleWords))

\* allTorrents.filter(...).map(...).filter(score > 0).sort(...) of
\* find-best-torrent in synchronous mode.
PreciseRank(torrents, tg) ==
  LET kept == SelectSeq(torrents, IsKept)
      scored == [i \in 1..Len(kept) |->
                   Scored(kept[i], PreciseScore(kept[i], tg))]
      Positive(t) == t.score > 0
  IN SortByScore(SelectSeq(scored, Positive))

\* The seeder score of scoreAndFilterTorrents and of the pre-loader.
SeederScore(seeders) ==
  IF seeders > 50 THEN 100
  ELSE IF seeders > 20 THEN 80
  ELSE IF seeders > 10 THEN 60
  ELSE IF seeders > 5 THEN 40
  ELSE IF seeders > 0 THEN 20
  ELSE 0

\* torrents.filter(torrent => (torrent.seeders || 0) > 0)
IsActive(torrent) == torrent.seeders > 0

\* scoreAndFilterTorrents(torrents, artistName, trackTitle, albumTitle), the
\* ranking of processTorrentSearchAsync.
scoreAndFilterTorrents(torrents, artistName, trackTitle, albumTitle) ==
  LET active == SelectSeq(torrents, IsActive)
      searchTerms ==
        ToLowerCase(Spaced(Spaced(artistName, trackTitle), albumTitle))
      searchWords == Split(searchTerms)
      Score(t) ==
        LET title == ToLowerCase(t.title)
            inTitle == {word \in Words(searchWords) : Includes(title, word)}
        IN SeederScore(t.seeders) + 15 * CountWords(searchWords, inTitle)
  IN SortByScore([i \in 1..Len(active) |-> Scored(active[i], Score(active[i]))])

\* The ranking of the pre-loader for one album: active torrents, scored,
\* sorted, the first 20.
PreloadRank(torrents, artistName, albumTitle) ==
  LET active == SelectSeq(torrents, IsActive)
      searchTermsLower == ToLowerCase(Spaced(artistName, albumTitle))
      queryWords == Split(searchTermsLower)
      Score(t) ==
        LET title == ToLowerCase(t.title)
            titleWords == Split(title)
            inTitle == {word \in Words(queryWords) : Includes(title, word)}
            isTitleWord == inTitle \cap Words(titleWords)
            sizeScore ==
              IF t.size >= 50 * 1024 * 1024 /\ t.size <= 500 * 1024 * 1024
              THEN 10
              ELSE IF t.size > 500 * 1024 * 1024
                        /\ t.size <= 1000 * 1024 * 1024
              THEN 5 ELSE 0
            ageScore == IF t.age < 30 THEN 5
                        ELSE IF t.age < 90 THEN 3
                        ELSE IF t.age < 365 THEN 1 ELSE 0
        IN SeederScore(t.seeders) + 15 * CountWords(queryWords, inTitle)
             + 10 * CountWords(queryWords, isTitleWord) + sizeScore + ageScore
      sorted == SortByScore([i \in 1..Len(active) |->
                               Scored(active[i], Score(active[i]))])
  IN SubSeq(sorted, 1, Min(20, Len(sorted)))

\* scoredTorrents[0] when there is one: a list of one torrent or of none.
BestTorrent(list) == SubSeq(list, 1, Min(1, Len(list)))

\* ------------------------------------------------ ranking engine: requests
\* The titles of the torrents the indexer returns; a torrent without a
\* title counts as one with the empty title (torrent.title || '').
Titles ==
  {<<"A", "r", "t", "i", "s", "t", " ", "S", "o", "n", "g", " ",
     "F", "L", "A", "C">>,
   <<"s", "o", "n", "g", " ", "m", "p", "3">>,
   <<>>}

\* The torrents the indexer returns: seeders, leechers, size as the indexer
\* gives it, and the whole days since publishDate.
Torrents ==
  [title : Titles, seeders : {0, 1, 50}, leechers : {0, 1},
   size : {0, 100 * 1024 * 1024}, age : {1, 2, 40}]

\* allTorrents: what the queries collected, in the order of discovery.
CandidateLists == UNION {[1..n -> Torrents] : n \in 0..MaxCandidates}

\* trackTitle, artistName and albumTitle of a request.
Targets ==
  [trackTitle : {<<"S", "o", "n", "g">>, <<"A", " ", "S", "o", "n", "g">>},
   artistName : {<<"A", "r", "t", "i", "s", "t">>},
   albumTitle : {<<>>, <<"L", "P", "1">>}]

\* POST /api/find-best-torrent in synchronous mode ranks what it collected.
RankSync ==
  /\ ranked = NoRanked
  /\ ranked' = [mode |-> "sync", list |-> PreciseRank(candidates, target)]
  /\ UNCHANGED <<engineVars, selectorVars, extraVars, candidates, target, resolveVars,
               preloadVars>>

\* processTorrentSearchAsync ranks what it collected.
RankJob ==
  /\ ranked = NoRanked
  /\ ranked' = [mode |-> "job",
                list |-> scoreAndFilterTorrents(candidates, target.artistName,
                                                target.trackTitle,
                                                target.albumTitle)]
  /\ UNCHANGED <<engineVars, selectorVars, extraVars, candidates, target, resolveVars,
               preloadVars>>

\* The pre-loader ranks what it found for one album of the artist.
RankPreload ==
  /\ ranked = NoRanked
  /\ target.albumTitle # <<>>
  /\ ranked' = [mode |-> "preload",
                list |-> PreloadRank(candidates, target.artistName,
                                     target.albumTitle)]
  /\ UNCHANGED <<engineVars, selectorVars, extraVars, candidates, target, resolveVars,
               preloadVars>>

\* --------------------------------------------------------- magnet resolver
\* 'magnet:'
MagnetPrefix == <<"m", "a", "g", "n", "e", "t", ":">>

\* String.prototype.startsWith
StartsWith(s, t) == Len(t) <= Len(s) /\ SubSeq(s, 1, Len(t)) = t

\* value.startsWith('magnet:')
IsMagnet(value) == StartsWith(value, MagnetPrefix)

\* A wrong first test: a magnet link is not recognised.
AlreadyMagnet_Never(downloadUrl) == FALSE

\* if (downloadUrl.startsWith('magnet:')) return downloadUrl
AlreadyMagnet(downloadUrl) == IsMagnet(downloadUrl)

\* downloadUrl.includes('localhost') || downloadUrl.includes('127.0.0.1')
IsLocal(downloadUrl) ==
  \/ Includes(downloadUrl, <<"l", "o", "c", "a", "l", "h", "o", "s", "t">>)
  \/ Includes(downloadUrl, <<"1", "2", "7", ".", "0", ".", "0", ".", "1">>)

\* The characters that end the magnet link found in a body: ", ' and white
\* space.
Delimiters == {"\"", "'", " "}

\* response.data.match(/magnet:\?[^"'\s]+/): the leftmost 'magnet:?' that a
\* character other than a delimiter follows, up to the next delimiter; <<>>
\* when there is none (match is null).
MagnetMatch(data) ==
  LET pat == <<"m", "a", "g", "n", "e", "t", ":", "?">>
      starts == {i \in 1..(Len(data) - Len(pat)) :
                   /\ SubSeq(data, i, i + Len(pat) - 1) = pat
                   /\ data[i + Len(pat)] \notin Delimiters}
  IN IF starts = {} THEN <<>>
     ELSE LET i == CHOOSE x \in starts : \A y \in starts : x <= y
              others == {data[k] : k \in 1..Len(data)} \ Delimiters
          IN SubSeq(data, i, RunEnd(data, i + Len(pat), others))

\* validateStatus: status >= 200 && status < 400; a status of 0 stands for a
\* request that got no response.  axios.get rejects when this is false.
FetchSucceeds(response) == response.status >= 200 /\ response.status < 400

\* What resolveMagnetUrl returns once it has a response that axios accepted.
FromResponse(downloadUrl, response) ==
  IF response.location # <<>> /\ IsMagnet(response.location)
  THEN response.location
  ELSE IF response.isString /\ response.data # <<>>
            /\ MagnetMatch(response.data) # <<>>
  THEN MagnetMatch(response.data)
  ELSE downloadUrl

\* A wrong catch: the error is thrown again.
CatchResolve_Rethrow(downloadUrl) == [value |-> <<>>, raised |-> TRUE]

\* catch (error) { return downloadUrl; }
CatchResolve(downloadUrl) == [value |-> downloadUrl, raised |-> FALSE]

\* resolveMagnetUrl(downloadUrl) when the HTTP request, if it makes one, gets
\* `response`: the value returned, whether a request was made, whether an
\* exception left the function.
resolveMagnetUrl(downloadUrl, response) ==
  IF AlreadyMagnet(downloadUrl)
  THEN [value |-> downloadUrl, raised |-> FALSE, fetch |-> FALSE]
  ELSE IF IsLocal(downloadUrl)
  THEN IF FetchSucceeds(response)
       THEN [value |-> FromResponse(downloadUrl, response), raised |-> FALSE,
             fetch |-> TRUE]
       ELSE [fetch |-> TRUE] @@ CatchResolve(downloadUrl)
  ELSE [value |-> downloadUrl, raised |-> FALSE, fetch |-> FALSE]

\* Whether a caller that resolved its reference to `value`, and has no handle
\* registered for it, goes on to torrentClient.add(value): stream-torrent and
\* the pre-loader test value.startsWith('magnet:') first, torrent-tracks and
\* play-album-track do not.
AddsAfterResolve(path, value) ==
  IF path \in {"stream", "preload"} THEN IsMagnet(value) ELSE TRUE

\* ----------------------------------------------- magnet resolver: requests
\* The download URLs and magnet links callers hold: magnet links (one that
\* names a local tracker), URLs of the local indexer, a URL elsewhere, the
\* bare prefix, and none.
References ==
  {<<"m", "a", "g", "n", "e", "t", ":", "?", "a">>,
   <<"m", "a", "g", "n", "e", "t", ":", "?", "l", "o", "c", "a", "l", "h", "o", "s", "t">>,
   <<"h", "t", "t", "p", ":", "/", "/", "l", "o", "c", "a", "l", "h", "o", "s", "t", "/", "a">>,
   <<"h", "t", "t", "p", ":", "/", "/", "1", "2", "7", ".", "0", ".", "0", ".", "1", "/", "a">>,
   <<"h", "t", "t", "p", ":", "/", "/", "x", "/", "a">>,
   <<"m", "a", "g", "n", "e", "t", ":">>,
   <<>>}

\* The Location header of a response: absent, a magnet link, another URL.
Locations ==
  {<<>>, <<"m", "a", "g", "n", "e", "t", ":", "?", "b">>,
   <<"h", "t", "t", "p", ":", "/", "/", "y">>}

\* The body of a response, when it is a string: empty, without a magnet
\* link, with one between quotes, with a 'magnet:?' that nothing follows.
Bodies ==
  {<<>>, <<"n", "o", " ", "l", "i", "n", "k">>,
   <<"a", " ", "\"", "m", "a", "g", "n", "e", "t", ":", "?", "c", "\"", " ", "d">>,
   <<"m", "a", "g", "n", "e", "t", ":", "?", " ">>}

\* What the HTTP request of resolveMagnetUrl can get: no response (status
\* 0), or a status with a Location header and a body that is a string or not.
Responses ==
  [status : {0, 200, 302, 404}, location : Locations, data : Bodies,
   isString : BOOLEAN]

\* A call of resolveMagnetUrl on the reference, or on what the call before
\* it returned.
ResolveMagnetUrl(response) ==
  /\ Len(resolved) < MaxResolves
  /\ LET input == IF resolved = <<>> THEN reference ELSE Last(resolved)
         r == resolveMagnetUrl(input, response)
     IN /\ resolved' = Append(resolved, r.value)
        /\ fetched' = IF r.fetch THEN Append(fetched, response) ELSE fetched
        /\ raised' = (raised \/ r.raised)
  /\ UNCHANGED <<engineVars, selectorVars, extraVars, rankVars, reference, added,
               preloadVars>>

\* A caller that needs a handle for its reference, with nothing registered
\* yet: it resolves the reference and, unless it turns the result down, calls
\* torrentClient.add with it.  Without a reference it stops before.
ResolveThenAdd(path, response) ==
  /\ resolved = <<>>
  /\ reference # <<>>
  /\ LET r == resolveMagnetUrl(reference, response)
     IN /\ resolved' = <<r.value>>
        /\ fetched' = IF r.fetch THEN <<response>> ELSE <<>>
        /\ raised' = r.raised
        /\ added' = IF ~r.raised /\ AddsAfterResolve(path, r.value)
                    THEN <<[path |-> path, value |-> r.value]>>
                    ELSE <<>>
  /\ UNCHANGED <<engineVars, selectorVars, extraVars, rankVars, reference, preloadVars>>

\* POST /api/stream-torrent, in either mode
StreamTorrentResolve(response) == ResolveThenAdd("stream", response)

\* POST /api/torrent-tracks
TorrentTracksResolve(response) == ResolveThenAdd("tracks", response)

\* POST /api/play-album-track
PlayAlbumTrackResolve(response) == ResolveThenAdd("album", response)

\* The pre-loader, for one torrent of an album
PreloadResolve(response) == ResolveThenAdd("preload", response)

\* -------------------------------------------------------- album pre-loader
\* artistName of an artist-details request.
ArtistName == <<"A", "r", "t", "i", "s", "t">>

\* The titles of releasesByType.albums, in order.
AlbumTitles == <<<<"L", "P", "1">>, <<"L", "P", "2">>, <<"L", "P", "3">>>>

\* releasesByType.albums.length for each artist: the first artist has
\* MaxAlbums albums, the next one album less, and so on.
Discography == [artist \in ArtistIds |->
     IF artist <= MaxAlbums THEN MaxAlbums + 1 - artist ELSE 0]

\* releasesByType.albums[a]
Album(a) == [title |-> AlbumTitles[a]]

\* magnetUrl: null
NoMagnet == <<>>

\* No answer of searchProwlarr yet, and no HTTP request made.
NoOutcome == [ok |-> FALSE, data |-> <<"none">>]

NoResponse == [status |-> -1, location |-> <<>>, data |-> <<>>,
               isString |-> FALSE]

\* A wrong result for a torrent without magnet link: the download URL is
\* passed on as if it were one.
Unresolved_KeepsUrl(torrent) ==
  [magnetUrl |-> torrent.downloadUrl, webTorrentReady |-> TRUE] @@ torrent

\* { ...torrent, magnetUrl: null, webTorrentReady: false }
Unresolved(torrent) ==
  [magnetUrl |-> NoMagnet, webTorrentReady |-> FALSE] @@ torrent

\* What the per-torrent function of the pre-loader returns for one of the top
\* torrents when the request of resolveMagnetUrl, if it makes one, gets
\* `response`.  torrent.downloadUrl stands for torrent.url ||
\* torrent.magnetUrl || torrent.magnet || torrent.downloadUrl || torrent.link
\* (<<>>: none of them).
TorrentWithMagnet(torrent, response) ==
  IF torrent.downloadUrl = <<>> THEN Unresolved(torrent)
  ELSE LET r == resolveMagnetUrl(torrent.downloadUrl, response)
       IN IF r.raised \/ ~AddsAfterResolve("preload", r.value)
          THEN Unresolved(torrent)
          ELSE [magnetUrl |-> r.value, webTorrentReady |-> TRUE,
                originalDownloadUrl |-> torrent.downloadUrl] @@ torrent

\* The response the resolver's request got, for the record: NoResponse when
\* it made none.
Got(torrent, response) ==
  IF torrent.downloadUrl # <<>>
       /\ resolveMagnetUrl(torrent.downloadUrl, response).fetch
  THEN response ELSE NoResponse

\* The workflow of album a before searchProwlarr has answered.
Searching(a) ==
  [state |-> "searching", album |-> Album(a), found |-> NoOutcome,
   torrents |-> <<>>]

\* catch (error) { return { ...album, torrents: [] }; } of the per-album
\* function, and its return when no torrent has seeders.
WithoutTorrents(w, outcome) ==
  [w EXCEPT !.state = "settled", !.found = outcome, !.torrents = <<>>]

\* The workflow of an album once searchProwlarr has answered: an answer that
\* is not a list makes torrents.filter throw; otherwise the torrents are
\* filtered, scored, sorted and cut, and each of the top torrents is handed
\* to the per-torrent function.
AfterSearch(w, outcome) ==
  IF ~outcome.ok THEN WithoutTorrents(w, outcome)
  ELSE LET topTorrents == PreloadRank(outcome.data, ArtistName, w.album.title)
       IN IF topTorrents = <<>> THEN WithoutTorrents(w, outcome)
          ELSE [w EXCEPT !.state = "resolving", !.found = outcome,
                         !.torrents = [i \in 1..Len(topTorrents) |->
                                         [done |-> FALSE, got |-> NoResponse,
                                          value |-> topTorrents[i]]]]

\* The workflow of an album once the per-torrent function has returned for
\* its i-th torrent: the inner Promise.all resolves with the last one.
AfterTorrent(w, i, response) ==
  LET torrents == [w.torrents EXCEPT
                     ![i] = [done |-> TRUE, got |-> Got(@.value, response),
                             value |-> TorrentWithMagnet(@.value, response)]]
  IN [w EXCEPT !.torrents = torrents,
               !.state = IF \A j \in 1..Len(torrents) : torrents[j].done
                         THEN "settled" ELSE "resolving"]

\* { ...album, torrents: torrentsWithMagnets }
AlbumRecord(w) ==
  [torrents |-> [i \in 1..Len(w.torrents) |-> w.torrents[i].value]] @@ w.album

\* A wrong pre-loader: it stores what it has after every step.
PreloadComplete_Always(ws) == TRUE

\* The outer Promise.all has resolved: every album's function has returned.
PreloadComplete(ws) == \A a \in 1..Len(ws) : ws[a].state = "settled"

\* preloadedAlbumTorrents.set(artist.id, { albums: albumsWithTorrents,
\* timestamp }) once the outer Promise.all has resolved; `by` stands for the
\* timestamp: it tells which pre-load wrote the entry.
Store(r, ws) ==
  IF PreloadComplete(ws)
  THEN /\ preloadedAlbumTorrents' =
            [preloadedAlbumTorrents EXCEPT
               ![details[r].artist] =
                  [albums |-> [a \in 1..Len(ws) |-> AlbumRecord(ws[a])],
                   by |-> r]]
       /\ details' = [details EXCEPT ![r].phase = "done"]
  ELSE /\ details' = [details EXCEPT ![r].phase = "running"]
       /\ UNCHANGED preloadedAlbumTorrents

\* A wrong schedule: the pre-load may start while the details are collected.
Scheduled_Early(r) == details[r].phase \in {"collecting", "scheduled"}

\* setImmediate(async () => { ... }) has been called and its callback has
\* not run yet.
Scheduled(r) == details[r].phase = "scheduled"

\* ---------------------------------------------- album pre-loader: requests
\* Torrents the indexer returns for an album: one with a magnet link, one
\* with a URL of the local indexer, one without any URL, one without
\* seeders.
Direct ==
  [title |-> <<"A", "r", "t", "i", "s", "t", " ", "L", "P", "1", " ", "F", "L", "A", "C">>,
   seeders |-> 50, leechers |-> 1, size |-> 100 * 1024 * 1024, age |-> 40,
   downloadUrl |-> <<"m", "a", "g", "n", "e", "t", ":", "?", "a">>]

Local ==
  [title |-> <<"l", "p", "2", " ", "m", "p", "3">>, seeders |-> 1,
   leechers |-> 0, size |-> 0, age |-> 2,
   downloadUrl |-> <<"h", "t", "t", "p", ":", "/", "/", "l", "o", "c", "a", "l", "h", "o", "s", "t", "/", "a">>]

NoUrl ==
  [title |-> <<>>, seeders |-> 1, leechers |-> 0, size |-> 0, age |-> 1,
   downloadUrl |-> <<>>]

Dead ==
  [title |-> <<>>, seeders |-> 0, leechers |-> 1, size |-> 0, age |-> 1,
   downloadUrl |-> <<"m", "a", "g", "n", "e", "t", ":", "?", "a">>]

\* What searchProwlarr returns: response.data, a list of torrents, or
\* { error: error.message } when the request failed.
SearchOutcomes ==
  {[ok |-> FALSE, data |-> <<>>]}
    \cup {[ok |-> TRUE, data |-> list] :
            list \in {<<Dead>>, <<NoUrl>>, <<Local, Dead, Direct>>}}

\* What the request of resolveMagnetUrl gets for a torrent of the
\* pre-loader: no response, or a redirect to a magnet link.
PreloadResponses ==
  {[status |-> 0, location |-> <<>>, data |-> <<>>, isString |-> FALSE],
   [status |-> 302, location |-> <<"m", "a", "g", "n", "e", "t", ":", "?", "b">>,
    data |-> <<>>, isString |-> FALSE]}

\* POST /api/artist-details arrives for an artist; the handler starts
\* collecting the artist's metadata.
ArtistDetails(r, artist) ==
  /\ details[r] = NoDetail
  /\ \A q \in DetailIds : q < r => details[q] # NoDetail
  /\ details' = [details EXCEPT
                   ![r] = [phase |-> "collecting", artist |-> artist,
                           albums |-> Discography[artist]]]
  /\ listed' = NoListed
  /\ UNCHANGED <<engineVars, selectorVars, extraVars, rankVars, resolveVars,
                 detailResponse, albumsWithTorrents, preloadedAlbumTorrents,
                 preloadHandles>>

\* The handler has the metadata: it sends the details (res.json(result)) and
\* calls setImmediate with the pre-load; or a metadata request failed and
\* its catch answers 500.
ArtistDetailsRespond(r, ok) ==
  /\ details[r].phase = "collecting"
  /\ detailResponse' = [detailResponse EXCEPT
                          ![r] = IF ok THEN "details" ELSE "error"]
  /\ details' = [details EXCEPT
                   ![r].phase = IF ok THEN "scheduled" ELSE "failed"]
  /\ listed' = NoListed
  /\ UNCHANGED <<engineVars, selectorVars, extraVars, rankVars, resolveVars,
                 albumsWithTorrents, preloadedAlbumTorrents, preloadHandles>>

\* The callback of setImmediate runs: releasesByType.albums.map starts one
\* function per album, each up to its call of searchProwlarr; with no album
\* the outer Promise.all resolves at once.
PreloadStart(r) ==
  /\ Scheduled(r)
  /\ LET ws == [a \in 1..details[r].albums |-> Searching(a)]
     IN /\ albumsWithTorrents' = [albumsWithTorrents EXCEPT ![r] = ws]
        /\ Store(r, ws)
  /\ listed' = NoListed
  /\ UNCHANGED <<engineVars, selectorVars, extraVars, rankVars, resolveVars,
                 detailResponse, preloadHandles>>

\* searchProwlarr answers for album a of pre-load r.
PreloadSearch(r, a, outcome) ==
  /\ details[r].phase = "running"
  /\ a \in 1..Len(albumsWithTorrents[r])
  /\ albumsWithTorrents[r][a].state = "searching"
  /\ LET ws == [albumsWithTorrents[r] EXCEPT ![a] = AfterSearch(@, outcome)]
     IN /\ albumsWithTorrents' = [albumsWithTorrents EXCEPT ![r] = ws]
        /\ Store(r, ws)
  /\ listed' = NoListed
  /\ UNCHANGED <<engineVars, selectorVars, extraVars, rankVars, resolveVars,
                 detailResponse, preloadHandles>>

\* The per-torrent function runs for torrent i of album a of pre-load r:
\* it resolves the download URL and, with a magnet link that has no handle
\* yet, calls torrentClient.add and registers the handle at once (addOk) or
\* catches what add throws.
PreloadTorrent(r, a, i, response, addOk) ==
  /\ details[r].phase = "running"
  /\ a \in 1..Len(albumsWithTorrents[r])
  /\ albumsWithTorrents[r][a].state = "resolving"
  /\ i \in 1..Len(albumsWithTorrents[r][a].torrents)
  /\ ~albumsWithTorrents[r][a].torrents[i].done
  /\ LET ws == [albumsWithTorrents[r] EXCEPT
                  ![a] = AfterTorrent(@, i, response)]
         magnetUrl == ws[a].torrents[i].value.magnetUrl
     IN /\ albumsWithTorrents' = [albumsWithTorrents EXCEPT ![r] = ws]
        /\ preloadHandles' =
             IF ws[a].torrents[i].value.webTorrentReady /\ addOk
             THEN preloadHandles \cup {magnetUrl}
             ELSE preloadHandles
        /\ Store(r, ws)
  /\ listed' = NoListed
  /\ UNCHANGED <<engineVars, selectorVars, extraVars, rankVars, resolveVars,
                 detailResponse>>

\* addedTorrent.on('error'): activeTorrents.delete(resolvedMagnetUrl)
PreloadHandleError(magnetUrl) ==
  /\ magnetUrl \in preloadHandles
  /\ preloadHandles' = preloadHandles \ {magnetUrl}
  /\ listed' = NoListed
  /\ UNCHANGED <<engineVars, selectorVars, extraVars, rankVars, resolveVars, details,
                 detailResponse, albumsWithTorrents, preloadedAlbumTorrents>>

\* GET /api/artist-torrents/:artistId
ListAlbumTorrents(artistId) ==
  /\ listed' =
       IF preloadedAlbumTorrents[artistId] # NoEntry
       THEN [artist |-> artistId, success |-> TRUE,
             albums |-> preloadedAlbumTorrents[artistId].albums]
       ELSE [artist |-> artistId, success |-> FALSE, albums |-> <<>>]
  /\ UNCHANGED <<engineVars, selectorVars, extraVars, rankVars, resolveVars, details,
                 detailResponse, albumsWithTorrents, preloadedAlbumTorrents,
                 preloadHandles>>

\* ------------------------------------------------------------ rate limiter
\* Everything but the rate limiter.
limiterRest ==
  <<engineVars, selectorVars, rankVars, resolveVars, preloadVars, pollVars,
    searchVars,
    probeVars>>

\* rateLimitedMusicBrainzCall(url, config) up to its await or, when it does
\* not wait, to the end: it reads the clock, and either sets a timer for the
\* rest of the interval or records the time and sends the request.
RateLimitedCall(c) ==
  /\ callers[c] = NoCaller
  /\ \A b \in CallerIds : b < c => callers[b] # NoCaller
  /\ LET timeSinceLastCall == clock - lastMusicBrainzCall
         waitTime == MinInterval - timeSinceLastCall
     IN IF timeSinceLastCall < MinInterval
        THEN /\ callers' = [callers EXCEPT
                              ![c] = [pc |-> "waiting",
                                      wakeAt |-> clock + waitTime]]
             /\ UNCHANGED <<lastMusicBrainzCall, sent>>
        ELSE /\ callers' = [callers EXCEPT ![c] = [pc |-> "sent", wakeAt |-> 0]]
             /\ lastMusicBrainzCall' = clock
             /\ sent' = Append(sent, clock)
  /\ UNCHANGED <<clock, limiterRest>>

\* The timer of a waiting call fires: lastMusicBrainzCall = Date.now() and
\* the request is sent.
LimiterTimerFires(c) ==
  /\ callers[c].pc = "waiting"
  /\ clock >= callers[c].wakeAt
  /\ callers' = [callers EXCEPT ![c] = [pc |-> "sent", wakeAt |-> 0]]
  /\ lastMusicBrainzCall' = clock
  /\ sent' = Append(sent, clock)
  /\ UNCHANGED <<clock, limiterRest>>

\* Time passes, once every timer that is due has fired.
LimiterTick ==
  /\ clock + LimiterStepMs <= LimiterHorizonMs
  /\ \A c \in CallerIds :
       callers[c].pc = "waiting" => clock < callers[c].wakeAt
  /\ clock' = clock + LimiterStepMs
  /\ UNCHANGED <<lastMusicBrainzCall, callers, sent, limiterRest>>

\* ------------------------------------------------- client: polling loops
\* Everything but the polling loop.
pollRest ==
  <<engineVars, selectorVars, rankVars, resolveVars, preloadVars, limiterVars,
    searchVars,
    probeVars>>

\* The polling loops of the client: pollForTorrentSearchResults,
\* pollForStreamResults, checkForPreloadedTorrents.
PollKinds == {"search", "stream", "preload"}

\* const maxAttempts
maxAttempts(kind) == IF kind = "preload" THEN 12 ELSE 18

\* What one poll can get: fetch or response.json() throws; a response that
\* is not OK (a 404 or 500); a job that is completed with a result, or
\* pre-loaded torrents that are there; a failed job; anything else.  The
\* retrieval endpoint has no failed answer.
PollAnswers(kind) ==
  {"throws", "notOk", "done", "pending"}
    \cup (IF kind = "preload" THEN {} ELSE {"failed"})

\* Whether the interval is still set after a callback that made the
\* attempts-th poll and got `got`: a response that is not OK returns at
\* once; a result or a failure clears the interval; otherwise, and in the
\* catch, the interval is cleared when attempts >= maxAttempts.
StillPolling(kind, attempts, got) ==
  IF got = "notOk" THEN TRUE
  ELSE IF got \in {"done", "failed"} THEN FALSE
  ELSE ~(attempts >= maxAttempts(kind))

\* A polling loop starts: setInterval(..., 10000) with attempts = 0.
StartPolling(kind) ==
  /\ poller = NoPoller
  /\ poller' = [kind |-> kind, attempts |-> 0, active |-> TRUE,
                last |-> "none"]
  /\ UNCHANGED pollRest

\* The interval fires, 10 seconds after the last time: attempts++, the
\* poll, and what the callback does with its answer.
IntervalFires(got) ==
  /\ poller.active
  /\ poller.attempts < MaxPolls
  /\ got \in PollAnswers(poller.kind)
  /\ poller' = [poller EXCEPT
                  !.attempts = @ + 1,
                  !.last = got,
                  !.active = StillPolling(poller.kind, poller.attempts + 1,
                                          got)]
  /\ UNCHANGED pollRest

\* ------------------------------------------------- multi-query search
\* Everything but the multi-query search.
searchRest ==
  <<engineVars, selectorVars, rankVars, resolveVars, preloadVars, limiterVars,
    pollVars,
    probeVars>>

\* The track a search is for.
SearchTarget ==
  [trackTitle |-> <<"S", "o", "n", "g">>, artistName |-> ArtistName,
   albumTitle |-> AlbumTitles[1]]

\* What one indexer query gives: the call fails (axios.get rejects in the
\* synchronous loop; searchProwlarr returns { error }, which the spread of
\* allTorrents.push(...results) cannot iterate), or it returns a list.
QueryOutcomes ==
  {[ok |-> FALSE, data |-> <<>>]}
    \cup {[ok |-> TRUE, data |-> list] : list \in {<<>>, <<Direct>>, <<NoUrl>>}}

\* A wrong catch: the failure of one query ends the search with an error.
QueryFailed_Aborts(s, outcome) ==
  [s EXCEPT !.outcomes = Append(@, outcome),
            !.end = [status |-> IF s.mode = "sync" THEN "500" ELSE "failed",
                     success |-> FALSE]]

\* catch (searchError) { continue; } of the synchronous loop and the catch
\* of searchMultipleTorrentQueries: the loop goes on with the next query.
QueryFailed(s, outcome) == [s EXCEPT !.outcomes = Append(@, outcome)]

\* One turn of the loop over searchQueries.slice(0, 6).
AfterQuery(s, outcome) ==
  IF outcome.ok
  THEN [s EXCEPT !.outcomes = Append(@, outcome),
                 !.allTorrents = @ \o outcome.data]
  ELSE QueryFailed(s, outcome)

\* How the search ends once the loop is over.  Synchronous mode: 'No
\* torrents found' or 'No suitable torrents found' with success: false, or
\* the best torrent, each with status 200.  The job: completed, with
\* 'No suitable torrents found' or with the best torrent.
SearchEnd(s) ==
  IF s.mode = "sync"
  THEN [status |-> "200",
        success |-> PreciseRank(s.allTorrents, SearchTarget) # <<>>]
  ELSE [status |-> "completed",
        success |-> scoreAndFilterTorrents(s.allTorrents,
                      SearchTarget.artistName, SearchTarget.trackTitle,
                      SearchTarget.albumTitle) # <<>>]

\* POST /api/find-best-torrent (mode "sync") or processTorrentSearchAsync
\* (mode "job") has built n search queries and enters the loop.
SearchStart(mode, n) ==
  /\ search = NoSearch
  /\ search' = [NoSearch EXCEPT !.mode = mode, !.queries = n]
  /\ UNCHANGED searchRest

\* The indexer call of the next query returns or fails.
QueryReturns(outcome) ==
  /\ search.mode # "none"
  /\ search.end = NoEnd
  /\ Len(search.outcomes) < Min(search.queries, QueryLimit)
  /\ search' = AfterQuery(search, outcome)
  /\ UNCHANGED searchRest

\* The loop is over: the candidates are scored and the search ends.
SearchEnds ==
  /\ search.mode # "none"
  /\ search.end = NoEnd
  /\ Len(search.outcomes) = Min(search.queries, QueryLimit)
  /\ search' = [search EXCEPT !.end = SearchEnd(search)]
  /\ UNCHANGED searchRest

\* ------------------------------------------------------ link-validity probe
\* Everything but the probes.
probeRest ==
  <<engineVars, selectorVars, rankVars, resolveVars, preloadVars, limiterVars,
    pollVars, searchVars>>

\* resolve(result): the promise of a probe takes the first result only.
Resolve(p, result) == IF p.result = "none" THEN result ELSE p.result

\* POST /api/test-magnet: the 5 s timeout is set; a link without
\* 'xt=urn:btih:' is turned down and an exception of torrentClient.add is
\* caught, both clearing the timeout; otherwise the temporary torrent is
\* added, its listeners are set and the 2 s timer is started.
TestMagnet(i, start) ==
  /\ probe[i] = NoProbe
  /\ \A j \in ProbeIds : j < i => probe[j] # NoProbe
  /\ probe' = [probe EXCEPT
                 ![i] = IF start = "added"
                        THEN [handle |-> "live", result |-> "none",
                              basicTimer |-> TRUE, timeout |-> TRUE]
                        ELSE [handle |-> "none", result |-> start,
                              basicTimer |-> FALSE, timeout |-> FALSE]]
  /\ UNCHANGED probeRest

\* testTorrent.on('metadata'): clearTimeout, testTorrent.destroy(), resolve.
ProbeMetadata(i) ==
  /\ probe[i].handle = "live"
  /\ probe' = [probe EXCEPT
                 ![i] = [@ EXCEPT !.timeout = FALSE, !.handle = "destroyed",
                                  !.result = Resolve(probe[i], "metadata")]]
  /\ UNCHANGED probeRest

\* The 2 s timer: with testTorrent.infoHash set, clearTimeout,
\* testTorrent.destroy(), resolve; without it, nothing.
ProbeBasicParse(i, infoHash) ==
  /\ probe[i].basicTimer
  /\ probe' = [probe EXCEPT
                 ![i] = IF infoHash
                        THEN [@ EXCEPT !.basicTimer = FALSE,
                                       !.timeout = FALSE,
                                       !.handle = "destroyed",
                                       !.result =
                                          Resolve(probe[i], "basic_parse")]
                        ELSE [@ EXCEPT !.basicTimer = FALSE]]
  /\ UNCHANGED probeRest

\* testTorrent.on('error'): clearTimeout, testTorrent.destroy(), resolve.
ProbeError(i) ==
  /\ probe[i].handle = "live"
  /\ probe' = [probe EXCEPT
                 ![i] = [@ EXCEPT !.timeout = FALSE, !.handle = "destroyed",
                                  !.result = Resolve(probe[i], "error")]]
  /\ UNCHANGED probeRest

\* The 5 s timeout, after the 2 s timer: resolve({ success: false, ... }).
ProbeTimeout(i) ==
  /\ probe[i].timeout
  /\ ~probe[i].basicTimer
  /\ probe' = [probe EXCEPT
                 ![i] = [@ EXCEPT !.timeout = FALSE,
                                  !.result = Resolve(probe[i], "timeout")]]
  /\ UNCHANGED probeRest

\* ------------------------------------------------------------ specification
\* The handle registry and the engine: every handler that reads or writes
\* activeTorrents or adds a session, and the engine's events.
Next ==
  \/ \E m \in Magnets, e \in ExpectedCounts, a \in BOOLEAN : StreamTorrent(m, e, a)
  \/ \E m \in Magnets : TorrentTracks(m)
  \/ \E m \in Magnets : PlayAlbumTrack(m)
  \/ \E m \in Magnets : PreloadAdd(m)
  \/ CleanupTorrents
  \/ \E j \in JobIds : StreamTaskStart(j)
  \/ \E h \in HandleIds, n \in 0..MaxAudio : HandleReady(h, n)
  \/ \E h \in HandleIds : HandleError(h)
  \/ \E h \in HandleIds : CreateTimeout(h)

Spec == Init /\ [][Next]_vars

\* The job table: the two accept paths, the background tasks with the engine
\* events and registry states they meet, polling, the deletion timers, time.
JobNext ==
  \/ FindBestTorrentAsync
  \/ \E m \in Magnets, e \in ExpectedCounts : StreamTorrent(m, e, TRUE)
  \/ \E m \in Magnets : PreloadAdd(m)
  \/ \E j \in JobIds : StreamTaskStart(j)
  \/ \E h \in HandleIds, n \in 0..MaxAudio : HandleReady(h, n)
  \/ \E h \in HandleIds : HandleError(h)
  \/ \E h \in HandleIds : CreateTimeout(h)
  \/ \E j \in JobIds : SearchTaskStart(j)
  \/ \E j \in JobIds : SearchMetadataReturn(j)
  \/ \E j \in JobIds, f \in BOOLEAN, b \in BOOLEAN : SearchIndexerReturn(j, f, b)
  \/ \E j \in JobIds : JobStatus(j)
  \/ \E t \in timers : JobExpire(t)
  \/ Tick

JobSpec == Init /\ [][JobNext]_vars

\* The background tasks alone: accept, the tasks' steps and what settles
\* them.  setImmediate callbacks run, external calls return or fail, and
\* timers fire: the event loop starves none of them.  The swarm owes nothing:
\* no fairness on 'ready' or 'error'.
TaskNext ==
  \/ FindBestTorrentAsync
  \/ \E m \in Magnets, e \in ExpectedCounts : StreamTorrent(m, e, TRUE)
  \/ \E m \in Magnets : PreloadAdd(m)
  \/ \E j \in JobIds : StreamTaskStart(j)
  \/ \E h \in HandleIds, n \in 0..MaxAudio : HandleReady(h, n)
  \/ \E h \in HandleIds : HandleError(h)
  \/ \E h \in HandleIds : CreateTimeout(h)
  \/ \E j \in JobIds : SearchTaskStart(j)
  \/ \E j \in JobIds : SearchMetadataReturn(j)
  \/ \E j \in JobIds, f \in BOOLEAN, b \in BOOLEAN : SearchIndexerReturn(j, f, b)

FairTaskSpec ==
  /\ Init
  /\ [][TaskNext]_vars
  /\ \A j \in JobIds :
       /\ WF_vars(StreamTaskStart(j))
       /\ WF_vars(SearchTaskStart(j))
       /\ WF_vars(SearchMetadataReturn(j))
       /\ WF_vars(\E f \in BOOLEAN, b \in BOOLEAN : SearchIndexerReturn(j, f, b))
  /\ \A h \in HandleIds : WF_vars(CreateTimeout(h))

\* Streaming: the paths that register handles without a job, the engine's
\* events, and stream-file.
StreamNext ==
  \/ \E m \in Magnets : TorrentTracks(m)
  \/ \E m \in Magnets : PreloadAdd(m)
  \/ CleanupTorrents
  \/ \E h \in HandleIds, n \in 0..MaxAudio : HandleReady(h, n)
  \/ \E h \in HandleIds : HandleError(h)
  \/ \E h \in HandleIds : CreateTimeout(h)
  \/ \E m \in Magnets, i \in 1..MaxAudio, r \in RangeHeaders :
       StreamFile(m, TrackName(i), r)

StreamSpec == Init /\ [][StreamNext]_vars

\* The file selector on its own: a torrent's files, a hint and an expected
\* count are given, and one of the three copies answers.
SelectInit ==
  /\ asyncJobs = [j \in JobIds |-> NoJob]
  /\ created = 0
  /\ task = [j \in JobIds |-> NoTask]
  /\ writes = NoWrites
  /\ activeTorrents = [m \in Magnets |-> 0]
  /\ handles = [h \in HandleIds |-> NoHandle]
  /\ timers = {}
  /\ pollAge = [j \in JobIds |-> -1]
  /\ deletedAge = [j \in JobIds |-> -1]
  /\ thrown = [j \in JobIds |-> "none"]
  /\ escaped = {}
  /\ files \in FileLists
  /\ fileName \in Hints
  /\ expectedFileCount \in ExpectedCounts \cup {NotGiven}
  /\ answer = NoAnswer
  /\ served = NoServed
  /\ IdleLib

SelectNext ==
  \/ PrepareSync
  \/ PrepareReady
  \/ PrepareJob

SelectSpec == SelectInit /\ [][SelectNext]_vars

\* The ranking engine on its own: the collected torrents and a target are
\* given, and one of the three rankings runs.
RankInit ==
  /\ IdleEngine
  /\ IdleIo
  /\ IdleResolve
  /\ IdlePreload
  /\ IdleExtra
  /\ candidates \in CandidateLists
  /\ target \in Targets
  /\ ranked = NoRanked

RankNext ==
  \/ RankSync
  \/ RankJob
  \/ RankPreload

RankSpec == RankInit /\ [][RankNext]_vars

\* The magnet resolver and its callers on their own: a caller holds a
\* reference; the resolver is called on it, or an endpoint or the pre-loader
\* resolves it and adds a handle.
ResolveInit ==
  /\ IdleEngine
  /\ IdleIo
  /\ IdleRank
  /\ IdlePreload
  /\ IdleExtra
  /\ reference \in References
  /\ resolved = <<>>
  /\ fetched = <<>>
  /\ raised = FALSE
  /\ added = <<>>

ResolveNext ==
  \/ \E response \in Responses : ResolveMagnetUrl(response)
  \/ \E response \in Responses : StreamTorrentResolve(response)
  \/ \E response \in Responses : TorrentTracksResolve(response)
  \/ \E response \in Responses : PlayAlbumTrackResolve(response)
  \/ \E response \in Responses : PreloadResolve(response)

ResolveSpec == ResolveInit /\ [][ResolveNext]_vars

\* The artist-details endpoint, the pre-loads it starts, and the retrieval
\* endpoint.
PreloadInit ==
  /\ IdleEngine
  /\ IdleIo
  /\ IdleRank
  /\ IdleResolve
  /\ IdlePreload
  /\ IdleExtra

PreloadNext ==
  \/ \E r \in DetailIds, artist \in ArtistIds : ArtistDetails(r, artist)
  \/ \E r \in DetailIds, ok \in BOOLEAN : ArtistDetailsRespond(r, ok)
  \/ \E r \in DetailIds : PreloadStart(r)
  \/ \E r \in DetailIds, a \in 1..MaxAlbums, outcome \in SearchOutcomes :
       PreloadSearch(r, a, outcome)
  \/ \E r \in DetailIds, a \in 1..MaxAlbums, i \in 1..MaxCandidates,
        response \in PreloadResponses, addOk \in BOOLEAN :
       PreloadTorrent(r, a, i, response, addOk)
  \/ \E magnetUrl \in preloadHandles : PreloadHandleError(magnetUrl)
  \/ \E artistId \in ArtistIds : ListAlbumTorrents(artistId)

PreloadSpec == PreloadInit /\ [][PreloadNext]_vars

\* The rate limiter and the calls that go through it.
LimiterInit ==
  /\ IdleEngine
  /\ IdleIo
  /\ IdleRank
  /\ IdleResolve
  /\ IdlePreload
  /\ IdleExtra

LimiterNext ==
  \/ \E c \in CallerIds : RateLimitedCall(c)
  \/ \E c \in CallerIds : LimiterTimerFires(c)
  \/ LimiterTick

LimiterSpec == LimiterInit /\ [][LimiterNext]_vars

\* A polling loop of the client against whatever the server answers.
PollInit ==
  /\ IdleEngine
  /\ IdleIo
  /\ IdleRank
  /\ IdleResolve
  /\ IdlePreload
  /\ IdleExtra

PollNext ==
  \/ \E kind \in PollKinds : StartPolling(kind)
  \/ \E got \in {"throws", "notOk", "done", "failed", "pending"} :
       IntervalFires(got)

PollSpec == PollInit /\ [][PollNext]_vars

\* A multi-query torrent search, in either mode.
SearchInit ==
  /\ IdleEngine
  /\ IdleIo
  /\ IdleRank
  /\ IdleResolve
  /\ IdlePreload
  /\ IdleExtra

SearchNext ==
  \/ \E mode \in {"sync", "job"}, n \in 0..MaxQueries : SearchStart(mode, n)
  \/ \E outcome \in QueryOutcomes : QueryReturns(outcome)
  \/ SearchEnds

SearchSpec == SearchInit /\ [][SearchNext]_vars

\* The link-validity probes.
ProbeInit ==
  /\ IdleEngine
  /\ IdleIo
  /\ IdleRank
  /\ IdleResolve
  /\ IdlePreload
  /\ IdleExtra

ProbeNext ==
  \/ \E i \in ProbeIds, start \in {"invalid", "threw", "added"} :
       TestMagnet(i, start)
  \/ \E i \in ProbeIds : ProbeMetadata(i)
  \/ \E i \in ProbeIds, infoHash \in BOOLEAN : ProbeBasicParse(i, infoHash)
  \/ \E i \in ProbeIds : ProbeError(i)
  \/ \E i \in ProbeIds : ProbeTimeout(i)

ProbeSpec == ProbeInit /\ [][ProbeNext]_vars

\* ------------------------------------------------------------------ claims
\* The paths whose request awaits the creation of the handle it added.
RequestOwners == {"sync", "job", "tracks", "album"}

\* A creation in flight: added by a request, its promise not yet settled.
InFlight(h) ==
  /\ handles[h].owner \in RequestOwners
  /\ handles[h].state = "added"
  /\ ~handles[h].settled

\* A live handle: added and not destroyed.
Live(h) == handles[h].state \in {"added", "ready"}

\* C1: single-flight creation.  While requests that need the handle of one
\* unregistered magnet are in flight together, add has been invoked once for
\* that magnet: no two creations of the same magnet are ever in flight at the
\* same time.  (Checked under Spec.)
C1_SingleFlight ==
  \A g \in HandleIds, h \in HandleIds :
    (g # h /\ InFlight(g) /\ InFlight(h)) =>
      handles[g].magnet # handles[h].magnet

\* C2: in every reachable state there is at most one live handle per magnet
\* identifier, whichever paths added them.  (Checked under Spec.)
C2_AtMostOneLiveHandle ==
  \A g \in HandleIds, h \in HandleIds :
    (g # h /\ Live(g) /\ Live(h)) => handles[g].magnet # handles[h].magnet

\* One update of a job entry the lifecycle allows: created as pending,
\* pending to processing, processing to processing, completed or failed.
\* Nothing is allowed from a terminal entry.
LegalMove(a, b) ==
  \/ a = NoJob /\ b.status = "pending"
  \/ a.status = "pending" /\ b.status = "processing"
  \/ a.status = "processing" /\ b.status \in {"processing"} \cup Terminal

\* The entries a handler wrote are what changed the job table: the step
\* changes entry j only by the recorded writes, or by deleting it.
StepIsWrites(j) ==
  asyncJobs'[j] # asyncJobs[j] =>
    \/ /\ writes'.job = j
       /\ writes'.recs[1] = asyncJobs[j]
       /\ Last(writes'.recs) = asyncJobs'[j]
    \/ /\ asyncJobs[j].status \in Terminal
       /\ asyncJobs'[j] = NoJob

\* C3: job lifecycle.  Every update of a job entry is a legal move: an entry
\* is created pending, goes pending -> processing -> completed | failed, and
\* a terminal entry is never written again; the table changes by such
\* updates only, or by the removal of a terminal entry.  (Under JobSpec.)
C3_JobLifecycle ==
  /\ [](\A i \in 1..(Len(writes.recs) - 1) :
          LegalMove(writes.recs[i], writes.recs[i + 1]))
  /\ [][\A j \in JobIds : StepIsWrites(j)]_vars

\* C3's case: one job has completed and another has failed.
C3_Witness ==
  \E i \in JobIds, j \in JobIds :
    asyncJobs[i].status = "completed" /\ asyncJobs[j].status = "failed"

\* The progress of an entry is in range, 0 when pending, 100 when terminal.
ProgressOk(rec) ==
  /\ rec.progress \in 0..100
  /\ rec.status = "pending" => rec.progress = 0
  /\ rec.status \in Terminal => rec.progress = 100

\* C4: a job's progress is between 0 and 100 at every point of its life, 0
\* when pending, 100 in both terminal statuses, and never decreases from one
\* update of the entry to the next.  (Under JobSpec.)
C4_ProgressMonotone ==
  /\ [](/\ \A j \in JobIds : ProgressOk(asyncJobs[j])
        /\ \A i \in 1..Len(writes.recs) : ProgressOk(writes.recs[i])
        /\ \A i \in 1..(Len(writes.recs) - 1) :
             writes.recs[i].progress <= writes.recs[i + 1].progress)
  /\ [][\A j \in JobIds :
          asyncJobs'[j] # NoJob =>
            asyncJobs[j].progress <= asyncJobs'[j].progress]_vars

\* C4's case: a handler raised the progress twice and ended the job at 100
\* in the failed status.
C4_Witness ==
  /\ Len(writes.recs) >= 3
  /\ writes.recs[1].progress < writes.recs[2].progress
  /\ writes.recs[2].progress < Last(writes.recs).progress
  /\ Last(writes.recs).status = "failed"

\* An entry carries a result iff it is completed, an error iff it is failed.
PayloadOk(rec) ==
  /\ rec.result # "none" <=> rec.status = "completed"
  /\ rec.error # "none" <=> rec.status = "failed"

\* C5: in every state of the job table, and after every single write to it,
\* an entry has a result payload iff its status is 'completed' and an error
\* message iff its status is 'failed'.  (Under JobSpec.)
C5_ResultErrorPresence ==
  /\ \A j \in JobIds : asyncJobs[j] # NoJob => PayloadOk(asyncJobs[j])
  /\ \A i \in 1..Len(writes.recs) :
       writes.recs[i] # NoJob => PayloadOk(writes.recs[i])

\* C5's case: a search that found nothing suitable is completed with its
\* payload while another job has failed with its message.
C5_Witness ==
  \E i \in JobIds, j \in JobIds :
    /\ asyncJobs[i].status = "completed" /\ asyncJobs[i].result = "nosuitable"
    /\ asyncJobs[j].status = "failed" /\ asyncJobs[j].error # "none"

\* C6: job retention.  From the first poll that saw job j terminal until one
\* grace period later a poll answers the full entry; the entry is deleted
\* exactly one grace period after that poll, whatever terminal polls came in
\* between; after the grace period a poll answers NotFound.  (Under JobSpec.)
C6_Retention ==
  \A j \in JobIds :
    /\ (pollAge[j] >= 0 /\ pollAge[j] < JOB_RETENTION_MS) =>
         /\ JobStatusResponse(j).code = 200
         /\ JobStatusResponse(j).body.status \in Terminal
         /\ deletedAge[j] = -1
    /\ deletedAge[j] # -1 => deletedAge[j] = JOB_RETENTION_MS
    /\ pollAge[j] > JOB_RETENTION_MS =>
         /\ JobStatusResponse(j).code = 404
         /\ deletedAge[j] = JOB_RETENTION_MS

\* C6's case: a job was polled again inside its window, was deleted at the
\* end of the window, and the later poll's timer is still pending.
C6_Witness ==
  \E j \in JobIds :
    /\ deletedAge[j] = JOB_RETENTION_MS
    /\ JobStatusResponse(j).code = 404
    /\ \E t \in timers : t.job = j /\ t.left > 0

\* C7: an entry is removed only when it is terminal and a poll has seen it
\* terminal: never while pending or processing, never if it was not polled
\* after it ended; and a deletion timer exists only for a job that a poll
\* saw terminal, so a poll of a non-terminal job arms none.  (Under JobSpec.)
C7_NoEarlyRemoval ==
  /\ [](\A t \in timers :
          /\ pollAge[t.job] >= 0
          /\ asyncJobs[t.job].status \in Terminal \cup {"absent"})
  /\ [][\A j \in JobIds :
          (asyncJobs[j] # NoJob /\ asyncJobs'[j] = NoJob) =>
            (asyncJobs[j].status \in Terminal /\ pollAge[j] >= 0)]_vars
  /\ [][\A j \in JobIds :
          asyncJobs[j].status \in {"pending", "processing"} =>
            {t \in timers' : t.job = j} = {}]_vars

\* C7's case: one job has been removed, after more than a grace period of
\* polling; another is terminal, was never polled, and is still there; no
\* timer is pending for it.
C7_Witness ==
  \E i \in JobIds, j \in JobIds :
    /\ deletedAge[i] # -1
    /\ asyncJobs[j].status \in Terminal
    /\ pollAge[j] = -1
    /\ \A t \in timers : t.job # j

\* C8: every accepted job eventually reaches completed or failed, when the
\* scheduled callbacks run, the external calls return or fail and the timers
\* fire; the swarm is free never to answer.  (Under FairTaskSpec.)
C8_JobsTerminate ==
  \A j \in JobIds :
    (asyncJobs[j].status \in {"pending", "processing"})
      ~> (asyncJobs[j].status \in Terminal)

\* C8's case: the swarm never answered a stream job and the creation
\* timeout ended it.
C8_Witness ==
  \E j \in JobIds :
    /\ asyncJobs[j].type = "stream-torrent"
    /\ asyncJobs[j].status = "failed"
    /\ asyncJobs[j].error = ErrNoPeers

\* C9: an exception raised inside a background task is caught at the task
\* boundary: none escapes, the job is failed with the message of the
\* exception (until the entry is deleted), and the step that records it
\* changes no other job's entry.  (Under JobSpec.)
C9_TaskErrorsCaught ==
  /\ [](/\ escaped = {}
        /\ \A j \in JobIds :
             thrown[j] # "none" =>
               \/ asyncJobs[j] = NoJob /\ deletedAge[j] # -1
               \/ asyncJobs[j].status = "failed" /\ asyncJobs[j].error = thrown[j])
  /\ [][\A j \in JobIds :
          thrown'[j] # thrown[j] =>
            \A k \in JobIds \ {j} : asyncJobs'[k] = asyncJobs[k]]_vars

\* C9's case: a task has just thrown while another job is under way.
C9_Witness ==
  \E i \in JobIds, j \in JobIds :
    /\ i # j
    /\ writes.job = i
    /\ thrown[i] \in {ErrNoPeers, ErrSwarm, ErrNoAudio, ErrCount, ErrUnexpected}
    /\ asyncJobs[i].status = "failed"
    /\ asyncJobs[j].status \in {"pending", "processing"}

\* C10: the accept path stores the entry as 'pending' before the job id is
\* returned and before the task's first step: a task still scheduled has a
\* pending entry, and a poll for an id that was returned never answers
\* NotFound before the entry's retention has expired.  (Under JobSpec.)
C10_AcceptStoresPending ==
  \A j \in JobIds :
    /\ (j <= created /\ deletedAge[j] = -1) => JobStatusResponse(j).code = 200
    /\ task[j].pc = "scheduled" =>
         (j <= created /\ JobStatusResponse(j).body.status = "pending"
                       /\ JobStatusResponse(j).body.progress = 0)

\* C10's case: a job id has been returned and its task has not yet run.
C10_Witness ==
  \E j \in JobIds :
    /\ j <= created
    /\ task[j].pc = "scheduled"
    /\ JobStatusResponse(j).code = 200

\* The messages a creation timeout rejects with.
TimeoutMessages ==
  {ErrNoPeers, ErrNoPeersSync, ErrTracksTimeout, ErrAlbumTimeout}

\* C11: when the creation of a handle times out, the handle is destroyed,
\* the caller gets an error (the endpoint answers 500, the job is failed
\* with the timeout's message) and the registry does not hold that handle.
\* (Under Spec.)
C11_TimeoutTearsDown ==
  \A h \in HandleIds :
    handles[h].error \in TimeoutMessages =>
      /\ handles[h].state = "destroyed"
      /\ ~handles[h].timer
      /\ IF handles[h].owner = "job"
         THEN /\ asyncJobs[handles[h].job].status = "failed"
              /\ asyncJobs[handles[h].job].error = handles[h].error
         ELSE handles[h].resp = 500
      /\ \A m \in Magnets : activeTorrents[m] # h

\* C11's case: a track listing and a playback preparation have both timed
\* out.
C11_Witness ==
  \E g \in HandleIds, h \in HandleIds :
    /\ handles[g].error = ErrTracksTimeout
    /\ handles[h].error \in {ErrNoPeers, ErrNoPeersSync}

\* C12: playback preparation filters and selects files only on a handle
\* that has reached ready: in every step in which a stream task goes on to
\* file filtering (it writes progress 80), the handle it reads, the one the
\* registry holds for its magnet, is ready.  (Under Spec.)
C12_FilterOnlyReady ==
  [][\A j \in JobIds :
       (/\ task[j].kind = "stream"
        /\ task[j].pc # "done"
        /\ writes'.job = j
        /\ \E i \in 1..Len(writes'.recs) : writes'.recs[i].progress = 80)
       => LET h == activeTorrents'[task[j].magnet]
          IN h # 0 /\ handles'[h].ready]_vars

\* C13: stream-file for a magnet the registry does not hold answers
\* 'Torrent not found', and for a registered magnet and a name that is no
\* file of its handle 'File not found in torrent'; the request changes
\* neither the registry nor the engine's sessions.  (Under StreamSpec.)
C13_StreamFileNotFound ==
  [][served' # served =>
       LET h == activeTorrents[served'.magnet]
       IN /\ UNCHANGED <<activeTorrents, handles>>
          /\ h = 0 =>
               (served'.code = 404 /\ served'.error = "Torrent not found")
          /\ (h # 0 /\ \A i \in 1..AudioOf(h) : TrackName(i) # served'.name) =>
               (served'.code = 404
                  /\ served'.error = "File not found in torrent")]_vars

\* C13's case: a magnet whose handle is still being created, so that the
\* registry does not hold it, was asked for and not found; and the request
\* created nothing, no other session exists.
C13_Witness ==
  /\ served.error = "Torrent not found"
  /\ activeTorrents[served.magnet] = 0
  /\ \E h \in HandleIds :
       /\ handles[h].state = "added"
       /\ handles[h].magnet = served.magnet
       /\ \A g \in HandleIds \ {h} : handles[g].state = "none"

\* C14: range streaming of a file of length L.  Without a Range header the
\* answer is 200 with the L bytes 0..L-1; with bytes=s-e, 0 <= s <= e < L,
\* it is 206 with Content-Range s-e/L, Content-Length e-s+1 and the bytes
\* s..e; with bytes=s-, e is L-1.  (Under StreamSpec.)
C14_RangeStreaming ==
  served.code \in {200, 206} =>
    LET L == FileLength(served.name)
        r == served.range
        s == IF r # <<>> /\ r[1] # <<>> THEN DigitValue(r[1][1]) ELSE -1
        e == IF r # <<>> /\ r[2] # <<>> THEN DigitValue(r[2][1]) ELSE L - 1
    IN /\ r = <<>> =>
            /\ served.code = 200
            /\ served.contentLength = L
            /\ served.first = 0 /\ served.last = L - 1
       /\ (r # <<>> /\ 0 <= s /\ s <= e /\ e < L) =>
            /\ served.code = 206
            /\ served.contentRange = <<s, e, L>>
            /\ served.contentLength = e - s + 1
            /\ served.first = s /\ served.last = e

\* C14's case: a range with only its start given, past the first byte, was
\* served.
C14_Witness ==
  /\ served.code = 206
  /\ served.range[2] = <<>>
  /\ served.first > 0
  /\ served.last = FileLength(served.name) - 1
  /\ served.contentLength = FileLength(served.name) - served.first

\* The audio files of the handle a stream was prepared on, and whether the
\* eligibility checks let the selection run on them.
Eligible == AudioFilter(files)

SelectionRan ==
  /\ answer # NoAnswer
  /\ Eligible # <<>>
  /\ ~Truthy(expectedFileCount) \/ expectedFileCount = Len(Eligible)

\* C15: file selection is total.  For every non-empty list of eligible audio
\* files and every hint (given or not, matching or not), each copy of the
\* selection returns one file, and that file is one of the list.  (Under
\* SelectSpec.)
C15_SelectionTotal ==
  SelectionRan =>
    /\ answer.error = "none"
    /\ answer.target # Undefined
    /\ \E i \in 1..Len(Eligible) : Eligible[i] = answer.target

\* C15's case: a hint that no rule matches, on two or more audio files next
\* to one that is not audio; a file was returned all the same.
C15_Witness ==
  /\ SelectionRan
  /\ Len(Eligible) >= 2
  /\ Len(files) > Len(Eligible)
  /\ fileName = <<"z">>
  /\ answer.target # Undefined

\* What each rule of the selection yields on the eligible files for the hint
\* of the request: rules 1 to 4 need a hint.
Rule(k) ==
  IF fileName = <<>> THEN Undefined
  ELSE IF k = 1 THEN ExactMatch(Eligible, fileName)
  ELSE IF k = 2 THEN PartialMatch(Eligible, fileName)
  ELSE IF k = 3 THEN TrackNumberPick(Eligible, fileName)
  ELSE FuzzyMatch(Eligible, fileName)

\* C16: the selection applies its rules in strict priority order, first
\* match wins: (1) exact name, case-insensitive, (2) substring in either
\* direction, case-insensitive, (3) the track number taken from the hint
\* over the files sorted by name, (4) fuzzy match without the numeric
\* prefixes, (5) the first file by name.  The file returned is the one of
\* the first rule that matches.  (Under SelectSpec.)
C16_RulePriority ==
  SelectionRan =>
    \A k \in 1..5 :
      ((\A i \in 1..(k - 1) : Rule(i) = Undefined)
         /\ (k < 5 => Rule(k) # Undefined))
      => answer.target = IF k < 5 THEN Rule(k) ELSE FirstByName(Eligible)

\* The UTF-16 code unit of a character of the names and hints.
CodeUnit(c) ==
  CASE c = " " -> 32 [] c = "-" -> 45 [] c = "." -> 46
    [] c \in DigitChars -> 48 + DigitValue(c)
    [] c = "A" -> 65 [] c = "B" -> 66 [] c = "M" -> 77 [] c = "P" -> 80
    [] c = "a" -> 97 [] c = "b" -> 98 [] c = "c" -> 99 [] c = "f" -> 102
    [] c = "l" -> 108 [] c = "m" -> 109 [] c = "p" -> 112 [] c = "t" -> 116
    [] c = "x" -> 120 [] c = "z" -> 122

\* a is b or comes before it in lexicographic order: code unit by code unit,
\* a proper prefix first.
LexLeq(a, b) ==
  LET n == IF Len(a) < Len(b) THEN Len(a) ELSE Len(b)
      d == {i \in 1..n : a[i] # b[i]}
  IN IF d = {} THEN Len(a) <= Len(b)
     ELSE LET i == CHOOSE x \in d : \A y \in d : x <= y
          IN CodeUnit(a[i]) < CodeUnit(b[i])

\* No rule of the selection matches a file, or no hint is given.
NothingMatches == \A k \in 1..4 : Rule(k) = Undefined

\* C17, as stated: when the hint matches no file by any rule, or no hint is
\* given, the file returned is the lexicographically first name of the
\* list.  (Under SelectSpec.)
C17_FallbackLexicographic ==
  (SelectionRan /\ NothingMatches) =>
    \A i \in 1..Len(Eligible) : LexLeq(answer.target, Eligible[i])

\* C17, amended: when the hint matches no file by any rule, or no hint is
\* given, the file returned is the first of the list in the order of
\* localeCompare, the locale's collation (letters compared without regard to
\* case first, lower case before upper case on a tie), which is the order
\* the files are sorted in.  (Under SelectSpec.)
C17_FallbackFirstByName ==
  (SelectionRan /\ NothingMatches) =>
    /\ \E i \in 1..Len(Eligible) : Eligible[i] = answer.target
    /\ \A i \in 1..Len(Eligible) :
         LocaleCompare(answer.target, Eligible[i]) <= 0

\* C17's case: a hint that matches nothing, and the file returned is not the
\* one the engine lists first.
C17_Witness ==
  /\ SelectionRan
  /\ fileName = <<"z">>
  /\ NothingMatches
  /\ Len(Eligible) >= 2
  /\ answer.target # Eligible[1]

\* C18: the track-number rule.  When rules 1 and 2 match nothing and a
\* number N is taken from the hint, the N-th file (1-indexed) of the files
\* sorted by name is returned if 1 <= N <= the number of files; if N is 0 or
\* greater than the number of files the rule selects nothing, and the file
\* returned is the fuzzy match or the fallback: the sorted list is never
\* indexed outside its bounds.  (Under SelectSpec.)
C18_TrackNumberRule ==
  (/\ SelectionRan
   /\ fileName # <<>>
   /\ Rule(1) = Undefined /\ Rule(2) = Undefined
   /\ TrackNumberMatch(fileName) # <<>>) =>
    LET N == ParseInt(TrackNumberMatch(fileName))
        sorted == SortByName(Eligible)
    IN /\ (1 <= N /\ N <= Len(sorted)) => answer.target = sorted[N]
       /\ (N = 0 \/ N > Len(sorted)) =>
            /\ answer.target # Undefined
            /\ answer.target \in {Rule(4), sorted[1]}

\* The orders the engine may list the same files in.
Orders(n) == {p \in [1..n -> 1..n] : \A i \in 1..n, k \in 1..n : i # k => p[i] # p[k]}

Reordered(fs, p) == [i \in 1..Len(fs) |-> fs[p[i]]]

\* The eligible files that rule k, one that searches the files in their
\* order (1, 2 or 4), matches for the hint of the request.
Matched(k) ==
  {i \in 1..Len(Eligible) :
     Undefined # (IF k = 1 THEN ExactMatch(<<Eligible[i]>>, fileName)
                  ELSE IF k = 2 THEN PartialMatch(<<Eligible[i]>>, fileName)
                  ELSE FuzzyMatch(<<Eligible[i]>>, fileName))}

Refused(code) ==
  /\ answer.target = Undefined
  /\ answer.code = IF answer.path = "job" THEN 0 ELSE code

SelectionPaths == {"sync", "ready", "job"}

\* C21: a stream is prepared on the same file in every mode.  For the same
\* eligible files and the same hint the background job
\* (processStreamRequestAsync), the shortcut on a ready handle
\* (processStreamRequest) and the endpoint's own selection return the same
\* file name.  (Under SelectSpec.)
C21_SameFileInEveryMode ==
  SelectionRan =>
    \A p \in SelectionPaths :
      ProcessStream(p, files, fileName, expectedFileCount).target
        = answer.target

\* The torrent a scored torrent was made from.
Unscored(t) == [f \in DOMAIN t \ {"score"} |-> t[f]]

\* How many of the collected torrents satisfy Keep.
Survivors(Keep(_)) ==
  Cardinality({i \in 1..Len(candidates) : Keep(candidates[i])})

\* C22: for every list of candidates the output of the ranking is sorted
\* non-increasing by score; the precise variant's output has no element with
\* score <= 0, the light variant's no element with seeders <= 0; every
\* element is one of the candidates, and the output is empty when no
\* candidate survives.  (Under RankSpec.)
C22_RankedOutput ==
  ranked # NoRanked =>
    LET list == ranked.list
        Scores(t) == t.age >= 2 /\ t.seeders > 0 /\ PreciseScore(t, target) > 0
        Seeded(t) == t.seeders > 0
    IN /\ \A i \in 1..(Len(list) - 1) : list[i].score >= list[i + 1].score
       /\ \A i \in 1..Len(list) :
            \E k \in 1..Len(candidates) : Unscored(list[i]) = candidates[k]
       /\ ranked.mode = "sync" =>
            /\ \A i \in 1..Len(list) : list[i].score > 0
            /\ Len(list) = Survivors(Scores)
       /\ ranked.mode \in {"job", "preload"} =>
            /\ \A i \in 1..Len(list) : list[i].seeders > 0
            /\ Len(list) = Survivors(Seeded)

\* C22's case: two candidates survived the precise variant and the one
\* found second has the higher score, so the sort moved it to the front.
C22_Witness ==
  /\ ranked.mode = "sync"
  /\ Len(ranked.list) = 2
  /\ ranked.list[1].score > ranked.list[2].score
  /\ Unscored(ranked.list[1]) = candidates[2]
  /\ candidates[1] # candidates[2]

\* C23: the precise ranking never returns a candidate that has zero seeders
\* or was published within the last 2 days, and the best torrent it returns
\* has the highest score among the candidates that survive the two filters.
\* (Under RankSpec.)
C23_PreciseFilters ==
  ranked.mode = "sync" =>
    LET list == ranked.list
        best == BestTorrent(list)
        Survives(t) == t.seeders > 0 /\ t.age >= 2
    IN /\ \A i \in 1..Len(list) : list[i].seeders > 0 /\ list[i].age >= 2
       /\ \A k \in 1..Len(candidates) :
            (Survives(candidates[k]) /\ PreciseScore(candidates[k], target) > 0)
              => /\ best # <<>>
                 /\ best[1].score >= PreciseScore(candidates[k], target)
       /\ best # <<>> =>
            \E k \in 1..Len(candidates) :
              /\ Survives(candidates[k])
              /\ Unscored(best[1]) = candidates[k]
              /\ best[1].score = PreciseScore(candidates[k], target)

\* C23's case: for the target {Song, Artist}, a FLAC candidate with 50 seeders
\* published 40 days ago and a candidate without seeders published a day
\* ago, found first; the first is the best torrent and the second is gone.
C23_Witness ==
  /\ ranked.mode = "sync"
  /\ target.trackTitle = <<"S", "o", "n", "g">>
  /\ Len(candidates) = 2
  /\ candidates[1].seeders = 0 /\ candidates[1].age = 1
  /\ candidates[2].seeders = 50 /\ candidates[2].age = 40
  /\ Includes(ToLowerCase(candidates[2].title), <<"f", "l", "a", "c">>)
  /\ Len(ranked.list) = 1
  /\ Unscored(BestTorrent(ranked.list)[1]) = candidates[2]

\* C24: find-best-torrent yields the same ranked outcome in both modes.  For
\* the same collected candidates and target, the bestTorrent an async job
\* stores in its result is the bestTorrent the synchronous mode returns: the
\* async path applies the precise variant too (the 2-day filter, the
\* zero-seeder filter, the score > 0 filter).  (Under RankSpec.)
C24_SameBestInBothModes ==
  ranked.mode = "job" =>
    LET sync == PreciseRank(candidates, target)
        Sources(list) == [i \in 1..Len(list) |-> Unscored(list[i])]
    IN /\ Sources(BestTorrent(ranked.list)) = Sources(BestTorrent(sync))
       /\ \A i \in 1..Len(ranked.list) : ranked.list[i].age >= 2


\* The input of the i-th call of a chain of resolver calls: the reference,
\* then what the call before returned.
ResolveInput(i) == IF i = 1 THEN reference ELSE resolved[i - 1]

\* C25: resolving a reference that already starts with the magnet prefix
\* returns it unchanged and makes no HTTP request; so resolving the result of
\* a resolution that produced a magnet link returns that link again.
C25_ResolveIdempotent ==
  /\ \A i \in 1..Len(resolved) :
       IsMagnet(ResolveInput(i)) => resolved[i] = ResolveInput(i)
  /\ Len(fetched)
       <= Cardinality({i \in 1..Len(resolved) : ~IsMagnet(ResolveInput(i))})

\* A URL was resolved to a magnet link with one request, and resolving that
\* link again returned it without another request.
C25_Witness ==
  /\ Len(resolved) = 2
  /\ ~IsMagnet(reference)
  /\ IsMagnet(resolved[1])
  /\ resolved[2] = resolved[1]
  /\ Len(fetched) = 1


\* A body holds a magnet link: 'magnet:?' followed by a character that does
\* not end a link.
HoldsMagnet(data) ==
  \E i \in 1..(Len(data) - 8) :
    /\ SubSeq(data, i, i + 7) = <<"m", "a", "g", "n", "e", "t", ":", "?">>
    /\ data[i + 8] \notin Delimiters

\* The request found no magnet link: it failed, or its response neither
\* redirects to a magnet link nor has a string body that holds one.
FoundNothing(response) ==
  \/ response.status = 0
  \/ response.status >= 400
  \/ /\ ~IsMagnet(response.location)
     /\ ~(response.isString /\ HoldsMagnet(response.data))

\* C26: the resolver never raises; whatever its request gets (no response,
\* an error status, a redirect elsewhere, a body without a magnet link) it
\* returns its input or a magnet link, and its input whenever the request
\* found no magnet link.
C26_NeverRaises ==
  /\ ~raised
  /\ \A i \in 1..Len(resolved) :
       resolved[i] = ResolveInput(i) \/ IsMagnet(resolved[i])
  /\ (Len(resolved) = 1 /\ fetched # <<>> /\ FoundNothing(fetched[1]))
       => resolved[1] = reference

\* The request for a local URL got no response, and the call returned the
\* URL without raising.
C26_Witness ==
  /\ Len(resolved) = 1
  /\ fetched # <<>>
  /\ fetched[1].status = 0
  /\ resolved[1] = reference
  /\ ~raised


\* C27: on every path that resolves a reference and then needs a handle
\* (stream-torrent, torrent-tracks, play-album-track, the pre-loader),
\* torrentClient.add is called only with a value that starts with 'magnet:'.
C27_AddOnlyMagnet ==
  \A i \in 1..Len(added) : IsMagnet(added[i].value)


\* The pre-load of request r takes a step: it starts, one of its album
\* workflows advances (a search answers, a torrent is resolved and added),
\* or it finishes and writes the cache.
PreloadSteps(r) ==
  \/ albumsWithTorrents'[r] # albumsWithTorrents[r]
  \/ details'[r] # details[r] /\ details'[r].phase \in {"running", "done"}

\* C28: the pre-loader starts only after the artist-details response has
\* been sent: every step of a pre-load, every cache write and every handle
\* added belongs to a request whose caller already has the details; and no
\* step, failed or not, changes a response a caller has received.
C28_PreloadAfterResponse ==
  [][/\ \A r \in DetailIds :
          /\ detailResponse[r] # "none"
               => detailResponse'[r] = detailResponse[r]
          /\ PreloadSteps(r)
               => detailResponse[r] = "details" /\ detailResponse' = detailResponse
     /\ (\/ preloadedAlbumTorrents' # preloadedAlbumTorrents
         \/ ~(preloadHandles' \subseteq preloadHandles))
          => \E r \in DetailIds :
               PreloadSteps(r) /\ detailResponse[r] = "details"]_vars

\* A pre-load has finished with an album whose search failed, and with a
\* torrent that could not be resolved, and the caller still has the details
\* it received.
C28_Witness ==
  \E r \in DetailIds :
    /\ detailResponse[r] = "details"
    /\ details[r].phase = "done"
    /\ \E a \in 1..Len(albumsWithTorrents[r]) :
         ~albumsWithTorrents[r][a].found.ok
    /\ \E a \in 1..Len(albumsWithTorrents[r]) :
         \E i \in 1..Len(albumsWithTorrents[r][a].torrents) :
           /\ albumsWithTorrents[r][a].torrents[i].got.status = 0
           /\ albumsWithTorrents[r][a].torrents[i].value.magnetUrl = NoMagnet


\* The torrent of the indexer a record of the pre-loader was made from.
Origin(value) == [f \in DOMAIN Dead |-> value[f]]

\* The resolution of a torrent of the pre-loader failed: the torrent has no
\* download URL, or the URL is no magnet link and the resolver made no
\* request for it or its request found no magnet link.
ResolutionFailed(item) ==
  \/ item.value.downloadUrl = <<>>
  \/ /\ ~IsMagnet(item.value.downloadUrl)
     /\ item.got = NoResponse \/ FoundNothing(item.got)

\* C29: a pre-load for an artist with k albums runs k album workflows; an
\* album whose search fails ends with an empty torrent list, every other
\* album keeps one record for each torrent with seeders found for it, a
\* torrent whose resolution fails has no magnet link and any other has one;
\* and the cache entry a pre-load stores holds exactly these albums.
C29_FailureIsolation ==
  \A r \in DetailIds :
    details[r].phase \in {"running", "done"} =>
      LET ws == albumsWithTorrents[r]
          entry == preloadedAlbumTorrents[details[r].artist]
      IN /\ Len(ws) = details[r].albums
         /\ \A a \in 1..Len(ws) :
              /\ ws[a].album = Album(a)
              /\ ws[a].state # "searching" =>
                   IF ws[a].found.ok
                   THEN LET data == ws[a].found.data
                            active == {j \in 1..Len(data) : data[j].seeders > 0}
                        IN /\ Len(ws[a].torrents) = Cardinality(active)
                           /\ {Origin(ws[a].torrents[i].value) :
                                 i \in 1..Len(ws[a].torrents)}
                                = {data[j] : j \in active}
                   ELSE ws[a].state = "settled" /\ ws[a].torrents = <<>>
              /\ \A i \in 1..Len(ws[a].torrents) :
                   ws[a].torrents[i].done =>
                     IF ResolutionFailed(ws[a].torrents[i])
                     THEN ws[a].torrents[i].value.magnetUrl = NoMagnet
                     ELSE IsMagnet(ws[a].torrents[i].value.magnetUrl)
         /\ (details[r].phase = "done" /\ entry.by = r) =>
              /\ Len(entry.albums) = Len(ws)
              /\ \A a \in 1..Len(ws) :
                   /\ entry.albums[a].title = AlbumTitles[a]
                   /\ entry.albums[a].torrents =
                        [i \in 1..Len(ws[a].torrents) |->
                           ws[a].torrents[i].value]

\* The entry stored for an artist with two albums: the search of the first
\* album failed and it has no torrents; the second has its two torrents, one
\* whose resolution failed, without magnet link, and one with a magnet link.
C29_Witness ==
  \E r \in DetailIds :
    LET ws == albumsWithTorrents[r]
        entry == preloadedAlbumTorrents[details[r].artist]
    IN /\ details[r].phase = "done"
       /\ entry.by = r
       /\ Len(entry.albums) = 2
       /\ ~ws[1].found.ok
       /\ entry.albums[1].torrents = <<>>
       /\ Len(entry.albums[2].torrents) = 2
       /\ \E i, j \in 1..2 :
            /\ ws[2].torrents[i].got.status = 0
            /\ entry.albums[2].torrents[i].magnetUrl = NoMagnet
            /\ IsMagnet(entry.albums[2].torrents[j].magnetUrl)


\* The pre-load of request r has finished every album: it has started and
\* each of its album workflows has returned.
FinishedEveryAlbum(r) ==
  /\ details[r].phase \in {"running", "done"}
  /\ \A a \in 1..Len(albumsWithTorrents[r]) :
       /\ albumsWithTorrents[r][a].state = "settled"
       /\ \A i \in 1..Len(albumsWithTorrents[r][a].torrents) :
            albumsWithTorrents[r][a].torrents[i].done

\* The albums pre-load r has when it has finished: one record per album of
\* the artist, with the torrents its workflow ended with.
FinalAlbums(r) ==
  [a \in 1..Discography[details[r].artist] |->
     [title |-> AlbumTitles[a],
      torrents |-> [i \in 1..Len(albumsWithTorrents[r][a].torrents) |->
                      albumsWithTorrents[r][a].torrents[i].value]]]

\* The answer artist-torrents has just given is absent unless a pre-load for
\* that artist has finished every album, and otherwise holds the albums of
\* such a pre-load.
ListedWhole ==
  listed # NoListed =>
    LET finished == {r \in DetailIds : /\ details[r].artist = listed.artist
                                        /\ FinishedEveryAlbum(r)}
    IN /\ listed.success <=> finished # {}
       /\ listed.success =>
            \E r \in finished : listed.albums = FinalAlbums(r)

\* C30: artist-torrents answers absent until a pre-load for the artist has
\* finished every album and from then on answers with an entry of one record
\* per album, never a partly filled one; the entry of an artist changes only
\* when a pre-load for that artist finishes, and then it is that pre-load's,
\* so after overlapping pre-loads it is the one of the last to finish.
C30_WholeEntryLastWins ==
  [][/\ ListedWhole'
     /\ \A artist \in ArtistIds :
          LET finishing == {r \in DetailIds :
                              /\ details[r].artist = artist
                              /\ ~FinishedEveryAlbum(r)
                              /\ FinishedEveryAlbum(r)'}
          IN IF finishing = {}
             THEN preloadedAlbumTorrents'[artist]
                    = preloadedAlbumTorrents[artist]
             ELSE \E r \in finishing :
                    /\ preloadedAlbumTorrents'[artist].albums = FinalAlbums(r)'
                    /\ preloadedAlbumTorrents'[artist].by = r]_vars

\* Two pre-loads for the same artist overlapped and ended with different
\* torrents; the first request's finished last, and artist-torrents answers
\* with its albums.
C30_Witness ==
  /\ listed.success
  /\ \A r \in {1, 2} :
       details[r].artist = listed.artist /\ details[r].phase = "done"
  /\ preloadedAlbumTorrents[listed.artist].by = 1
  /\ FinalAlbums(1) # FinalAlbums(2)
  /\ listed.albums = FinalAlbums(1)
  /\ Len(listed.albums) = 2


\* C31: any two calls that go through rateLimitedMusicBrainzCall are sent at
\* least MUSICBRAINZ_CONFIG.rateLimit ms apart, also when calls enter while
\* another one is waiting.
C31_MinimumSpacing ==
  \A i, j \in 1..Len(sent) : i < j => sent[j] - sent[i] >= MinInterval


\* C32: each polling loop of the client stops after at most maxAttempts
\* polls (18, 18, 12), whatever the polls get, a response that is not OK
\* every time included.
C32_PollingBounded ==
  poller.attempts >= maxAttempts(poller.kind) => ~poller.active


\* The candidates of the queries that returned a list, in order.
RECURSIVE Collected(_)
Collected(outcomes) ==
  IF outcomes = <<>> THEN <<>>
  ELSE (IF Head(outcomes).ok THEN Head(outcomes).data ELSE <<>>)
         \o Collected(Tail(outcomes))

\* C33: in a multi-query search a query whose indexer call fails adds no
\* candidate, the other queries (up to 6) still run and their candidates are
\* collected, and the search never ends as a failed job or an error
\* response because of it.
C33_QueryFailureIsolated ==
  /\ search.allTorrents = Collected(search.outcomes)
  /\ search.end # NoEnd =>
       /\ Len(search.outcomes) = Min(search.queries, QueryLimit)
       /\ search.end.status \in {"200", "completed"}
       /\ search.end.success =
            (\E i \in 1..Len(search.allTorrents) :
               /\ search.allTorrents[i].seeders > 0
               /\ search.mode = "sync" => search.allTorrents[i].age >= 2)

\* A job with more than 6 queries whose first query failed: the other five
\* ran, a later one found a torrent, and the job completed with it.
C33_Witness ==
  /\ search.mode = "job"
  /\ search.queries > QueryLimit
  /\ Len(search.outcomes) = QueryLimit
  /\ ~search.outcomes[1].ok
  /\ search.outcomes[QueryLimit].data # <<>>
  /\ search.end = [status |-> "completed", success |-> TRUE]


\* C34: whichever way a probe ends (metadata, the 2 s basic parse, an error
\* event, the 5 s timeout), its temporary handle has been destroyed once its
\* result is returned, and no probe adds or removes a registry entry.
C34_ProbeTearsDown ==
  /\ \A i \in ProbeIds :
       probe[i].result # "none" => probe[i].handle \in {"none", "destroyed"}
  /\ activeTorrents = [m \in Magnets |-> 0]


\* C35: every job entry in a terminal status carries a completion timestamp:
\* status completed or failed implies completedAt is set, on every path that
\* completes a job, the 'No suitable torrents found' completion included.
C35_TerminalHasCompletedAt ==
  \A j \in JobIds :
    (asyncJobs[j] # NoJob /\ asyncJobs[j].status \in Terminal)
      => asyncJobs[j].completedAt


\* C36: no registry entry refers to a destroyed handle; in particular, once
\* cleanup-torrents has returned, the registry holds no entry and every handle
\* it held is destroyed, so that stream-file answers 'Torrent not found' for
\* each of those magnets.
C36_NoDestroyedRegistered ==
  \A m \in Magnets :
    activeTorrents[m] # 0 => handles[activeTorrents[m]].state # "destroyed"


\* C37: the error listener the pre-loader installs removes from the registry
\* only an entry that maps to its own handle: when a pre-loaded handle is
\* destroyed by an error event while the registry holds another handle for
\* its magnet, that entry stays.
C37_ErrorDeletesOwnEntry ==
  [][\A h \in HandleIds :
       (/\ handles[h].owner = "preload"
        /\ handles[h].state # "destroyed"
        /\ handles'[h].state = "destroyed"
        /\ activeTorrents[handles[h].magnet] # h)
         => activeTorrents'[handles[h].magnet]
              = activeTorrents[handles[h].magnet]]_vars


\* C38: a torrent record that is flagged webTorrentReady has a magnet
\* identifier, and at the moment the record is produced the registry holds a
\* handle for that magnet; a torrent whose engine add failed is not flagged.
C38_ReadyMeansRegistered ==
  [][\A r \in DetailIds :
       \A a \in 1..Len(albumsWithTorrents[r]) :
         (/\ albumsWithTorrents[r][a].state = "resolving"
          /\ Len(albumsWithTorrents'[r]) = Len(albumsWithTorrents[r]))
           => \A i \in 1..Len(albumsWithTorrents[r][a].torrents) :
                (/\ ~albumsWithTorrents[r][a].torrents[i].done
                 /\ albumsWithTorrents'[r][a].torrents[i].done
                 /\ albumsWithTorrents'[r][a].torrents[i].value.webTorrentReady)
                  => /\ albumsWithTorrents'[r][a].torrents[i].value.magnetUrl
                          # NoMagnet
                     /\ albumsWithTorrents'[r][a].torrents[i].value.magnetUrl
                          \in preloadHandles']_vars


\* C39: a range response on a file of length L never announces bytes outside
\* the file: the end of Content-Range is at most L-1, its start is at most
\* its end, and Content-Length is between 1 and L, also when the requested
\* end is L or more, the start is missing or the start is past the end.
C39_RangeInsideFile ==
  served.code = 206 =>
    LET L == FileLength(served.name)
        start == served.contentRange[1]
        end == served.contentRange[2]
    IN /\ start # NaN /\ end # NaN /\ served.contentLength # NaN
       /\ end <= L - 1
       /\ start <= end
       /\ 1 <= served.contentLength /\ served.contentLength <= L

====
